---- MODULE Spec2Model ----
(***************************************************************************)
(* doc484: docstring parsing core.                                         *)
(*                                                                         *)
(* Text is modelled as a sequence of tokens.  A token is one character     *)
(* (space, newline, parentheses, dash, comma, ...) or a word: an atom      *)
(* standing for a run of identifier characters ("int", "result1") or for   *)
(* one of the literal markers the section patterns look for ("Args:",      *)
(* "----------").                                                          *)
(* A docstring is a sequence of lines, each line a sequence of tokens      *)
(* (the text is the lines joined by "\n").                                 *)
(***************************************************************************)
EXTENDS Integers, Sequences, FiniteSets, TLC

VARIABLES
    docstring,       \* parse_docstring(docstring, ...): the raw lines
    default_format,  \* parse_docstring(..., default_format=...)
    options,         \* DocstringFormat.options
    line,            \* DocstringFormat.line: the start line the parser is bound to
    format_cls,      \* the class parse_docstring picked (its name), or "none"
    document,        \* the tree publish_doctree returned: its field nodes, in order
    i,               \* number of field nodes the loop of parse has handled
    params,          \* parse's OrderedDict, as a sequence of [name, arg] entries
    result,          \* parse's result: None or an Arg
    log,             \* calls received by the logger, in order
    returns,         \* RestDocstring.parse: its local returns (None or a list of Arg)
    yields,          \* RestDocstring.parse: its local yields (None or a list of Arg)
    raised,          \* the exception that left the call, or "none"
    pc,              \* position of the call
    filename,        \* the filename label the format object was constructed with
    o,               \* peek_iter(o): the items of the collection it was made from
    _iterable,       \* peek_iter._iterable: the items iter(o) has not produced yet
    _cache,          \* peek_iter._cache: the deque of items looked ahead at
    modifier,        \* modify_iter.modifier (its name), or "none" for a peek_iter
    modified,        \* the arguments the modifier was called with, in order
    taken,           \* the items the calls of next have returned, in order
    ret,             \* the last call on the iterator and what it returned or raised
    func,            \* the function definition handed to the fixer: name, arguments, ...
    default_arg_types,  \* formats.default_arg_types: argument name -> type, from the config
    parsed,          \* what formats.parse_docstring returned for the docstring, or None
    out,             \* the comment in front of the docstring after the call
    again,           \* the same after the fixer ran once more, on its own output
    fpc,             \* position of the fixer: "idle", "start", "fixed", "fixed_twice", "converted"
    style,           \* the section parser's class: "google", "numpy", or "none"
    _lines,          \* GoogleDocstring._lines: the lines the parser was made from
    _line_iter,      \* GoogleDocstring._line_iter: the number of lines the cursor has handed out
    _parsed_lines,   \* GoogleDocstring._parsed_lines
    _is_in_section,  \* GoogleDocstring._is_in_section
    _section_indent, \* GoogleDocstring._section_indent
    section,         \* parse: the header consumed last, <<>> outside a section
    fields,          \* _consume_fields: the fields found so far
    lines,           \* _consume_to_next_section: the lines taken so far
    error,           \* the exception that left parse, or "none"
    npc              \* position of parse: "idle", "parse", "loop", "fields", "to_next", "done"

vars == <<docstring, default_format, options, line, format_cls, document, i,
          params, result, log, returns, yields, raised, pc, filename,
          o, _iterable, _cache, modifier, modified, taken, ret,
          func, default_arg_types, parsed, out, again, fpc,
          style, _lines, _line_iter, _parsed_lines, _is_in_section, _section_indent,
          section, fields, lines, error, npc>>

\* the state of a GoogleDocstring or NumpyDocstring
nap_vars == <<style, _lines, _line_iter, _parsed_lines, _is_in_section, _section_indent,
              section, fields, lines, error, npc>>

\* the state of a call of parse_docstring or of RestDocstring.parse
parse_vars == <<docstring, default_format, options, line, format_cls, document, i,
                params, result, log, returns, yields, raised, pc, filename>>

\* the state of a peek_iter / modify_iter
iter_vars == <<o, _iterable, _cache, modifier, modified, taken, ret>>

\* the state that the calls of parse_docstring and RestDocstring.parse never assign
other_vars == <<filename, iter_vars, func, default_arg_types, parsed, out, again, fpc,
                nap_vars>>

\* the state of a call of the fixer
fix_vars == <<func, default_arg_types, parsed, out, again, fpc>>

\* no function is being fixed
FixIdle ==
    /\ func = [name |-> "none"]
    /\ default_arg_types = <<>>
    /\ parsed = [none |-> TRUE]
    /\ out = [prefix |-> <<>>, changed |-> FALSE]
    /\ again = [prefix |-> <<>>, changed |-> FALSE]
    /\ fpc = "idle"

\* no section parser is in use
NapIdle ==
    /\ style = "none"
    /\ _lines = <<>>
    /\ _line_iter = 0
    /\ _parsed_lines = <<>>
    /\ _is_in_section = FALSE
    /\ _section_indent = 0
    /\ section = <<>>
    /\ fields = <<>>
    /\ lines = <<>>
    /\ error = "none"
    /\ npc = "idle"

\* no iterator is in use
IterIdle ==
    /\ o = <<>>
    /\ _iterable = <<>>
    /\ _cache = <<>>
    /\ modifier = "none"
    /\ modified = <<>>
    /\ taken = <<>>
    /\ ret = [op |-> "none"]

----------------------------------------------------------------------------
\* Bounds of the model.

\* Longest docstring (in lines) handed to the convention detector.
MaxDocLines == 4
\* Most field nodes in a document tree.
MaxFields == 3

----------------------------------------------------------------------------
\* Plain text helpers (Python str methods on token sequences).

RECURSIVE SeqsUpTo(_, _)
SeqsUpTo(S, n) ==
    IF n = 0 THEN {<<>>}
    ELSE LET shorter == SeqsUpTo(S, n - 1)
         IN  shorter \cup {Append(s, x) : s \in {t \in shorter : Len(t) = n - 1}, x \in S}

Max(S) == CHOOSE x \in S : \A y \in S : y <= x
Min(S) == CHOOSE x \in S : \A y \in S : x <= y

\* str.isspace() of one character
IsSpace(t) == t \in {" ", "\n"}

\* characters that are not part of [a-zA-Z0-9_]; every other token is a word
\* ("BACKTICK" is the backquote character)
Punct == {" ", "\n", "(", ")", "-", ",", "BACKTICK", ":", "*", "[", "]"}
IsWord(t) == t \notin Punct

\* number of leading whitespace characters: len(s) - len(s.lstrip())
RECURSIVE LeadingSpace(_)
LeadingSpace(s) ==
    IF s = <<>> \/ ~IsSpace(Head(s)) THEN 0 ELSE 1 + LeadingSpace(Tail(s))

RECURSIVE TrailingSpace(_)
TrailingSpace(s) ==
    IF s = <<>> \/ ~IsSpace(s[Len(s)]) THEN 0
    ELSE 1 + TrailingSpace(SubSeq(s, 1, Len(s) - 1))

\* s[n:]
Drop(s, n) == SubSeq(s, n + 1, Len(s))

\* s.lstrip()
LStrip(s) == Drop(s, LeadingSpace(s))

\* s.strip()
Strip(s) == LET l == LStrip(s) IN SubSeq(l, 1, Len(l) - TrailingSpace(l))

\* s.replace(a, b) for single characters a, b
Replace(s, a, b) == [k \in 1..Len(s) |-> IF s[k] = a THEN b ELSE s[k]]

\* s.startswith(p)
StartsWith(s, p) == Len(s) >= Len(p) /\ SubSeq(s, 1, Len(p)) = p

\* sep.join(parts)
RECURSIVE Join(_, _)
Join(parts, sep) ==
    IF parts = <<>> THEN <<>>
    ELSE IF Len(parts) = 1 THEN parts[1]
    ELSE parts[1] \o sep \o Join(Tail(parts), sep)

\* s.split(): the maximal runs of non-whitespace characters
RECURSIVE Split(_)
Split(s) ==
    LET t == LStrip(s)
    IN  IF t = <<>> THEN <<>>
        ELSE LET stops == {k \in 1..Len(t) : IsSpace(t[k])}
                 n == IF stops = {} THEN Len(t) ELSE Min(stops) - 1
             IN  <<SubSeq(t, 1, n)>> \o Split(Drop(t, n))

----------------------------------------------------------------------------
\* Cleaning the docstring.

\* inspect.cleandoc(doc) on the lines of doc: the margin is the least indent of
\* the non-blank lines after the first; the first line is lstripped, the others
\* lose the margin; then empty lines are popped from the end and from the start.
RECURSIVE PopTrailingEmpty(_)
PopTrailingEmpty(ls) ==
    IF ls # <<>> /\ ls[Len(ls)] = <<>>
    THEN PopTrailingEmpty(SubSeq(ls, 1, Len(ls) - 1)) ELSE ls

RECURSIVE PopLeadingEmpty(_)
PopLeadingEmpty(ls) ==
    IF ls # <<>> /\ Head(ls) = <<>> THEN PopLeadingEmpty(Tail(ls)) ELSE ls

cleandoc(doc) ==
    LET indents == {LeadingSpace(doc[k]) : k \in {j \in 2..Len(doc) : LStrip(doc[j]) # <<>>}}
        dedented == [k \in 1..Len(doc) |->
                        IF k = 1 THEN LStrip(doc[1])
                        ELSE IF indents = {} THEN doc[k]
                        ELSE Drop(doc[k], Min(indents))]
    IN  PopLeadingEmpty(PopTrailingEmpty(dedented))

\* _cleandoc: inspect.cleandoc(docstring) with every backquote removed
_cleandoc(doc) ==
    LET c == cleandoc(doc)
    IN  [k \in 1..Len(c) |-> SelectSeq(c[k], LAMBDA t : t # "BACKTICK")]

----------------------------------------------------------------------------
\* Convention detection.

\* A pattern r'(\n|^)<line>\n' finds a line that is exactly <line> and is
\* followed by a newline, so it is not the last line of the text.
HasLine(text, l) == \E k \in 1..Len(text) - 1 : text[k] = l

\* r'(\n|^)<line1>\n<line2>\n'
HasLinePair(text, l1, l2) ==
    \E k \in 1..Len(text) - 2 : text[k] = l1 /\ text[k + 1] = l2

\* r'(\n|^)<prefix>': some line starts with <prefix>
HasLinePrefix(text, p) == \E k \in 1..Len(text) : StartsWith(text[k], p)

\* NumpyFormat.sections
NumpyFormat_matches(text) ==
    \/ HasLinePair(text, <<"Parameters">>, <<"----------">>)
    \/ HasLinePair(text, <<"Returns">>, <<"-------">>)
    \/ HasLinePair(text, <<"Yields">>, <<"------">>)

\* GoogleFormat.sections
GoogleFormat_matches(text) ==
    \/ HasLine(text, <<"Args:">>)
    \/ HasLine(text, <<"Returns:">>)
    \/ HasLine(text, <<"Yields:">>)

\* RestFormat.sections
RestFormat_matches(text) ==
    \/ HasLinePrefix(text, <<":param", " ">>)
    \/ HasLinePrefix(text, <<":rtype:">>)
    \/ HasLinePrefix(text, <<":Yields:">>)

\* DocstringFormat.matches, by class name
matches(cls, text) ==
    CASE cls = "numpy"  -> NumpyFormat_matches(text)
      [] cls = "google" -> GoogleFormat_matches(text)
      [] cls = "rest"   -> RestFormat_matches(text)

\* the module-level default_format (RestFormat)
module_default_format == "rest"

\* (a reordering of the list below)
formats_rest_first == <<module_default_format, "numpy", "google">>

\* formats = [NumpyFormat, GoogleFormat, default_format]
formats == <<"numpy", "google", module_default_format>>

\* format_map = {f.name: f for f in formats}
format_map_names == {formats[k] : k \in 1..Len(formats)}

\* guess_format(docstring)
guess_format(doc) ==
    LET text == cleandoc(doc)
        hits == {k \in 1..Len(formats) : matches(formats[k], text)}
    IN  IF hits # {} THEN formats[Min(hits)] ELSE module_default_format

\* (format_map.get(name, default_format) in place of format_map[name])
format_for_with_fallback(name, doc) ==
    IF name = "auto" THEN guess_format(doc)
    ELSE IF name \in format_map_names THEN name
    ELSE module_default_format

\* parse_docstring, lines 334-337: the class for default_format, or "KeyError"
\* when format_map has no such key
format_for(name, doc) ==
    IF name = "auto" THEN guess_format(doc)
    ELSE IF name \in format_map_names THEN name
    ELSE "KeyError"

----------------------------------------------------------------------------
\* Conversion to reST.

\* GoogleDocstring.__init__ (NumpyDocstring inherits it): the object as
\* constructed.  The constructor stores the lines and an empty _parsed_lines and
\* does not call parse().
GoogleDocstring_init(ls) ==
    [_lines |-> ls, _parsed_lines |-> <<>>,
     _is_in_section |-> FALSE, _section_indent |-> 0]

\* GoogleDocstring.lines()
GoogleDocstring_lines(self) == self._parsed_lines

\* RestFormat.to_rest, NumpyFormat.to_rest, GoogleFormat.to_rest: the reST text,
\* as lines (str(obj) joins obj.lines() with newlines)
to_rest(cls, doc) ==
    IF cls = "rest" THEN _cleandoc(doc)
    ELSE GoogleDocstring_lines(GoogleDocstring_init(_cleandoc(doc)))

----------------------------------------------------------------------------
\* The document tree.  A field node is [name, line, body]: name is the text of
\* its field_name node, body the blocks of its field_body in document order.
\* A block is a paragraph or a list_item holding one paragraph: [kind, text,
\* line], text being the node's astext().

None == [none |-> TRUE]
Arg(type, ln) == [type |-> type, line |-> ln]
\* a Python list held by a variable that may also hold None
List(seq) == [list |-> seq]

YIELDS_ERROR == "'Yields' is not supported. Use 'Returns' with Iterator[]"
NAMED_ITEMS_ERROR == "Named results are not supported. Use Tuple[] or NamedTuple"

Para(text) == [kind |-> "paragraph", text |-> text]
Item(text) == [kind |-> "list_item", text |-> text]

\* "<name> (<type>) -- d"
NamedItem(name, type) ==
    Item(<<name, " ", "(">> \o type \o <<")", " ", "-", "-", " ", "d">>)

\* The shapes of field the tree builder is given to return, without their lines.
FieldShapes ==
    { [name |-> <<"type", " ", "x">>, body |-> <<Para(<<"int">>)>>],
      [name |-> <<"type", " ", "x">>, body |-> <<Para(<<"str">>)>>],
      [name |-> <<"type", " ", " ", "y">>,
       body |-> <<Para(<<"Union", "[", "a", ",", "\n", "b", "]">>)>>],
      [name |-> <<"type", " ", "y">>, body |-> <<>>],
      [name |-> <<"param", " ", "x">>, body |-> <<Para(<<"d">>)>>],
      [name |-> <<"rtype">>, body |-> <<Para(<<"bool">>)>>],
      [name |-> <<"returns">>, body |-> <<Para(<<"d">>)>>],
      [name |-> <<"returns">>,
       body |-> <<NamedItem("a", <<"str">>), Item(<<"b">>), NamedItem("c", <<"bool">>)>>],
      [name |-> <<"returns">>,
       body |-> <<Item(<<"a", " ", "(", "str", ")">>), Item(<<"c", " ", "(", "bool", ")">>)>>],
      [name |-> <<"returns">>, body |-> <<NamedItem("r", <<" ", "int", " ">>)>>],
      [name |-> <<"Yields">>, body |-> <<Para(<<"str">>)>>] }

\* The tree for a sequence of shapes: the k-th field starts on line 2k - 1 of
\* the text (lines count from 1) and its j-th block is on the j-th line of it.
Tree(shapes) ==
    [k \in 1..Len(shapes) |->
        [name |-> shapes[k].name,
         line |-> 2 * k - 1,
         body |-> [j \in 1..Len(shapes[k].body) |->
                      [kind |-> shapes[k].body[j].kind,
                       text |-> shapes[k].body[j].text,
                       line |-> 2 * k - 2 + j]]]]

Documents == {Tree(s) : s \in SeqsUpTo(FieldShapes, MaxFields)}

\* The system messages the tree builder may report while it builds the tree.
SystemMessages ==
    { <<>>,
      <<[type |-> "INFO", text |-> "Duplicate implicit target name.", line |-> 1],
        [type |-> "WARNING", text |-> "Unexpected indentation.", line |-> 2]>> }

\* A field starts at a line whose first non-blank character is a colon: a text
\* with no such line has no field.
FieldMarkers == {":param", ":type", ":rtype:", ":returns:", ":Yields:"}
HasFieldMarker(text) ==
    \E k \in 1..Len(text) :
        LStrip(text[k]) # <<>> /\ Head(LStrip(text[k])) \in FieldMarkers

\* A line that is one whole field: ':rtype: body', or ':type name: body'.
IsFieldLine(l) ==
    /\ l # <<>>
    /\ Head(l) \in FieldMarkers
    /\ Head(l) \in {":param", ":type"} => \E c \in 2..Len(l) : l[c] = ":"

\* The field node of such a line, line k of the text: the tree builder numbers
\* the lines of the text it is given from 1 (test_basic: the type on the second
\* line of the dedented text has line 2), and a paragraph in the body that
\* starts on the marker's line has the line of the field.
field_of_line(l, k) ==
    LET colon == Min({c \in 2..Len(l) : l[c] = ":"})
        name == IF Head(l) = ":rtype:" THEN <<"rtype">>
                ELSE IF Head(l) = ":returns:" THEN <<"returns">>
                ELSE IF Head(l) = ":Yields:" THEN <<"Yields">>
                ELSE <<IF Head(l) = ":param" THEN "param" ELSE "type">>
                     \o SubSeq(l, 2, colon - 1)
        body == IF Head(l) \in {":param", ":type"} THEN Strip(Drop(l, colon))
                ELSE Strip(Tail(l))
    IN  [name |-> name,
         line |-> k,
         body |-> IF body = <<>> THEN <<>>
                  ELSE <<[kind |-> "paragraph", text |-> body, line |-> k]>>]

\* the tree of a text made of one-line fields only
field_list(text) == [k \in 1..Len(text) |-> field_of_line(text[k], k)]

\* publish_doctree(text, ...): the [document, messages] pairs the tree builder
\* may answer with.  It is a black box; only the facts above are assumed.
publish_doctree(text) ==
    IF text # <<>> /\ \A k \in 1..Len(text) : IsFieldLine(text[k])
    THEN {[document |-> field_list(text), messages |-> m] : m \in SystemMessages}
    ELSE IF HasFieldMarker(text)
    THEN {[document |-> d, messages |-> m] : d \in Documents, m \in SystemMessages}
    ELSE {[document |-> <<>>, messages |-> m] :
             m \in IF text = <<>> THEN {<<>>} ELSE SystemMessages}

\* field.traverse(condition=docutils.nodes.list_item)
list_items(field) == SelectSeq(field.body, LAMBDA b : b.kind = "list_item")

\* field.traverse(condition=docutils.nodes.paragraph)
paragraphs(field) == SelectSeq(field.body, LAMBDA b : b.kind \in {"paragraph", "list_item"})

----------------------------------------------------------------------------
\* RestBaseFormat.parse

\* _clean_type(s): s.strip().replace('\n', ' ')
_clean_type(s) == Replace(Strip(s), "\n", " ")

\* length of the longest prefix of s made of word characters
RECURSIVE WordPrefix(_)
WordPrefix(s) == IF s = <<>> \/ ~IsWord(Head(s)) THEN 0 ELSE 1 + WordPrefix(Tail(s))

\* NAMED_RESULTS_REG.match(text), the pattern being
\*     [a-zA-Z_][a-zA-Z0-9_]*\s+\((.*)\) --
\* (with a space after the dashes): [matched, group], group being group(1).
\* (.*) is greedy and does not cross a newline.
NAMED_RESULTS_REG_match(text) ==
    LET n1 == WordPrefix(text)
        n2 == LeadingSpace(Drop(text, n1))
        open == n1 + n2 + 1
        closes == {p \in (open + 1)..(Len(text) - 4) :
                      /\ text[p] = ")"
                      /\ SubSeq(text, p + 1, p + 4) = <<" ", "-", "-", " ">>
                      /\ \A q \in (open + 1)..(p - 1) : text[q] # "\n"}
    IN  IF /\ n1 >= 1
           /\ n2 >= 1
           /\ open <= Len(text)
           /\ text[open] = "("
           /\ closes # {}
        THEN [matched |-> TRUE, group |-> SubSeq(text, open + 1, Max(closes) - 1)]
        ELSE [matched |-> FALSE, group |-> <<>>]

\* lines 225-232: the types of the items up to the first one the pattern does
\* not match (the loop breaks there)
RECURSIVE item_types(_)
item_types(items) ==
    IF items = <<>> THEN <<>>
    ELSE LET m == NAMED_RESULTS_REG_match(Head(items).text)
         IN  IF m.matched THEN <<m.group>> \o item_types(Tail(items)) ELSE <<>>

\* 'Tuple[%s]' % ', '.join(types)
TupleOf(types) == <<"Tuple", "[">> \o Join(types, <<",", " ">>) \o <<"]">>

\* self.options.get(key, default)
options_get(opts, key, default) == IF key \in DOMAIN opts THEN opts[key] ELSE default

\* (a known key is removed and the entry appended: the key moves to the end)
OrderedDict_set_move_to_end(d, name, arg) ==
    Append(SelectSeq(d, LAMBDA e : e.name # name), [name |-> name, arg |-> arg])

\* params[name] = arg on an OrderedDict: a new key goes last, a known key keeps
\* its place and takes the new value
OrderedDict_set(d, name, arg) ==
    IF \E k \in 1..Len(d) : d[k].name = name
    THEN [k \in 1..Len(d) |-> IF d[k].name = name THEN [name |-> name, arg |-> arg] ELSE d[k]]
    ELSE Append(d, [name |-> name, arg |-> arg])

\* (the line of the docstring is passed on without the start line)
log_call_unshifted(level, message, ln, start) ==
    [level |-> level, message |-> message,
     extra |-> [file |-> filename, line |-> ln, column |-> 0]]

\* DocstringFormat.warning / DocstringFormat.error: the call the logger receives
log_call(level, message, ln, start) ==
    [level |-> level, message |-> message,
     extra |-> [file |-> filename, line |-> ln + start, column |-> 0]]

\* Reader.pass_to_format_logger, for each message the tree builder reports
RECURSIVE pass_to_format_logger(_, _)
pass_to_format_logger(msgs, start) ==
    IF msgs = <<>> THEN <<>>
    ELSE LET msg == Head(msgs)
             rest == pass_to_format_logger(Tail(msgs), start)
         IN  IF msg.type = "ERROR" THEN <<log_call("error", msg.text, msg.line, start)>> \o rest
             ELSE IF msg.type = "WARNING"
                  THEN <<log_call("warning", msg.text, msg.line, start)>> \o rest
             ELSE rest

\* lines 218-240: what a field named 'returns' does to [params, result, log]
returns_field(field, st, opts, start) ==
    LET items == list_items(field)
    IN  IF items = <<>> THEN st
        ELSE IF options_get(opts, "allow_named_results", TRUE)
        THEN LET types == item_types(items)
             IN  IF Len(types) = 1 THEN [st EXCEPT !.result = Arg(types[1], field.line)]
                 ELSE IF Len(types) > 1
                      THEN [st EXCEPT !.result = Arg(TupleOf(types), field.line)]
                 ELSE st
        ELSE [st EXCEPT !.log = Append(@, log_call("warning", NAMED_ITEMS_ERROR, field.line, start))]

\* lines 254-256: a field named 'Yields'
yields_field(paragraph, st, start) ==
    [st EXCEPT !.log = Append(@, log_call("warning", YIELDS_ERROR, paragraph.line, start))]

\* lines 241-256: a field with a one-word name, or named 'type <name>'
typed_field(field, parts, st, start) ==
    LET paras == paragraphs(field)
    IN  IF paras = <<>> THEN st
        ELSE LET paragraph == paras[1]
                 arg == Arg(_clean_type(paragraph.text), paragraph.line)
             IN  IF Len(parts) = 2
                 THEN [st EXCEPT !.params = OrderedDict_set(@, parts[2], arg)]
                 ELSE IF parts[1] = <<"rtype">> THEN [st EXCEPT !.result = arg]
                 ELSE IF parts[1] = <<"Yields">> THEN yields_field(paragraph, st, start)
                 ELSE st

\* lines 214-256: the body of the loop over the field nodes, for one field
parse_field(field, st, opts, start) ==
    LET parts == Split(Strip(field.name))
    IN  IF Len(parts) = 1 /\ parts[1] = <<"returns">>
        THEN returns_field(field, st, opts, start)
        ELSE IF Len(parts) = 1 \/ (Len(parts) = 2 /\ parts[1] = <<"type">>)
        THEN typed_field(field, parts, st, start)
        ELSE st

----------------------------------------------------------------------------
\* The call parse_docstring(docstring, line, logger=..., default_format=...,
\* options=...).

\* Docstrings of the three conventions, as the caller passes them (first line
\* empty, the text indented).
RestDoc ==
    << <<>>,
       <<" ", " ", "x">>,
       <<>>,
       <<" ", " ", ":param", " ", "x", ":", " ", "d">>,
       <<" ", " ", ":type", " ", "x", ":", " ", "int">>,
       <<" ", " ", ":rtype:", " ", "bool">>,
       <<" ", " ">> >>

\* a NumPy Returns section with two named entries
NumpyReturnsDoc ==
    << <<>>,
       <<" ", " ", "Returns">>,
       <<" ", " ", "-------">>,
       <<" ", " ", "result1", " ", ":", " ", "str">>,
       <<" ", " ", "result2", " ", ":", " ", "bool">>,
       <<" ", " ">> >>

\* a NumPy docstring with a summary and a Parameters section: a typed field
\* with a description, and a field without type
NumpyParamsDoc ==
    << <<>>,
       <<" ", " ", "One", " ", "line", " ", "summary.">>,
       <<>>,
       <<" ", " ", "Parameters">>,
       <<" ", " ", "----------">>,
       <<" ", " ", "arg1", " ", ":", " ", "Any">>,
       <<" ", " ", " ", " ", "d">>,
       <<" ", " ", "arg2">>,
       <<" ", " ">> >>

\* a NumPy Yields section
NumpyYieldsDoc ==
    << <<>>,
       <<" ", " ", "Yields">>,
       <<" ", " ", "------">>,
       <<" ", " ", "str">>,
       <<" ", " ", " ", " ", "d">>,
       <<" ", " ">> >>

\* a Google Yields section
GoogleYieldsDoc ==
    << <<>>,
       <<" ", " ", "Yields:">>,
       <<" ", " ", " ", " ", "str", ":", " ", "d">>,
       <<" ", " ">> >>

\* prose without any section
ProseDoc == << <<"x">> >>

\* ':param x: d\n:type x: int\n:rtype: bool': fields only, from the first line on
BasicDoc ==
    << <<":param", " ", "x", ":", " ", "d">>,
       <<":type", " ", "x", ":", " ", "int">>,
       <<":rtype:", " ", "bool">> >>

SampleDocs ==
    {RestDoc, NumpyReturnsDoc, NumpyParamsDoc, NumpyYieldsDoc, GoogleYieldsDoc, ProseDoc,
     BasicDoc, << <<>> >>}

OptionValues ==
    { [k \in {} |-> TRUE],
      [allow_named_results |-> TRUE],
      [allow_named_results |-> FALSE] }

FormatNames == {"auto", "numpy", "google", "rest", "sphinx"}

TypeOK ==
    /\ default_format \in FormatNames
    /\ options \in OptionValues
    /\ line \in Nat
    /\ format_cls \in format_map_names \cup {"none"}
    /\ i \in 0..Len(document)
    /\ raised \in {"none", "KeyError", "AssertionError"}
    /\ pc \in {"parse_docstring", "parse", "fields", "done", "raised"}

\* filename labels: the default of parse_docstring and a file's path
FileNames == {"<string>", "a.py"}

Init ==
    /\ docstring \in SampleDocs
    /\ default_format \in {"auto", "sphinx"}
    /\ options \in OptionValues
    /\ line \in {0, 3}
    /\ filename \in FileNames
    /\ IterIdle
    /\ FixIdle
    /\ NapIdle
    /\ format_cls = "none"
    /\ document = <<>>
    /\ i = 0
    /\ params = <<>>
    /\ result = None
    /\ log = <<>>
    /\ returns = None
    /\ yields = None
    /\ raised = "none"
    /\ pc = "parse_docstring"

\* parse_docstring, lines 334-339: pick the class and construct the format
ParseDocstring ==
    /\ pc = "parse_docstring"
    /\ LET cls == format_for(default_format, docstring)
       IN  IF cls = "KeyError"
           THEN /\ raised' = "KeyError"
                /\ pc' = "raised"
                /\ UNCHANGED format_cls
           ELSE /\ format_cls' = cls
                /\ pc' = "parse"
                /\ UNCHANGED raised
    /\ UNCHANGED <<docstring, default_format, options, line, document, i, params, result,
                   log, returns, yields>>
    /\ UNCHANGED other_vars

\* RestBaseFormat.parse, lines 204-211, the tree builder answering with a tree:
\* to_rest, then publish_doctree, which reports its messages to the logger as it
\* builds.  An empty text has an empty tree.
ParsePublish ==
    /\ pc = "parse"
    /\ \E pub \in publish_doctree(to_rest(format_cls, docstring)) :
          /\ document' = pub.document
          /\ log' = log \o pass_to_format_logger(pub.messages, line)
    /\ pc' = "fields"
    /\ UNCHANGED <<docstring, default_format, options, line, format_cls, i, params, result,
                   returns, yields, raised>>
    /\ UNCHANGED other_vars

\* RestBaseFormat.parse, lines 208-211: the tree builder raises SystemMessage
\* (after reporting the message) and parse returns the empty params and None
ParseSystemMessage ==
    /\ pc = "parse"
    /\ to_rest(format_cls, docstring) # <<>>
    /\ log' = log \o pass_to_format_logger(
                  <<[type |-> "ERROR", text |-> "Severe error.", line |-> 1]>>, line)
    /\ pc' = "done"
    /\ UNCHANGED <<docstring, default_format, options, line, format_cls, document, i,
                   params, result, returns, yields, raised>>
    /\ UNCHANGED other_vars

\* RestBaseFormat.parse, lines 213-256: one iteration of the loop
ParseField ==
    /\ pc = "fields"
    /\ i < Len(document)
    /\ LET st == parse_field(document[i + 1],
                             [params |-> params, result |-> result, log |-> log],
                             options, line)
       IN  /\ params' = st.params
           /\ result' = st.result
           /\ log' = st.log
    /\ i' = i + 1
    /\ UNCHANGED <<docstring, default_format, options, line, format_cls, document,
                   returns, yields, raised, pc>>
    /\ UNCHANGED other_vars

\* RestBaseFormat.parse, line 258
ParseReturn ==
    /\ pc = "fields"
    /\ i = Len(document)
    /\ pc' = "done"
    /\ UNCHANGED <<docstring, default_format, options, line, format_cls, document, i,
                   params, result, log, returns, yields, raised>>
    /\ UNCHANGED other_vars

Next == ParseDocstring \/ ParsePublish \/ ParseSystemMessage \/ ParseField \/ ParseReturn

Spec == Init /\ [][Next]_vars

----------------------------------------------------------------------------
\* Properties of RestBaseFormat.parse.

\* the words of a field's name
NameParts(field) == Split(Strip(field.name))

\* a ':type <name>:' field whose body has a paragraph
IsTypeField(field) ==
    /\ Len(NameParts(field)) = 2
    /\ NameParts(field)[1] = <<"type">>
    /\ paragraphs(field) # <<>>

\* the fields handled so far that are ':type <name>:' fields for name
TypeFieldsOf(name) ==
    {k \in 1..i : IsTypeField(document[k]) /\ NameParts(document[k])[2] = name}

\* C4: params holds exactly the names of the ':type <name>:' fields with a body
\* (':param <name>:' adds none), each once, in the order of their first
\* occurrence, each with the value of its last occurrence.
C4_ParamsMapping ==
    pc \in {"fields", "done"} =>
        /\ {params[p].name : p \in 1..Len(params)}
               = {NameParts(document[k])[2] : k \in {j \in 1..i : IsTypeField(document[j])}}
        /\ \A p, q \in 1..Len(params) : p # q => params[p].name # params[q].name
        /\ \A p, q \in 1..Len(params) :
               p < q => Min(TypeFieldsOf(params[p].name)) < Min(TypeFieldsOf(params[q].name))
        /\ \A p \in 1..Len(params) :
               LET paragraph == paragraphs(document[Max(TypeFieldsOf(params[p].name))])[1]
               IN  params[p].arg = Arg(_clean_type(paragraph.text), paragraph.line)

\* ':type x: int', ':type y: ...', ':type x: str' parsed to x (str), then y
C4_Witness ==
    /\ pc = "done"
    /\ Len(document) = 3
    /\ TypeFieldsOf(<<"x">>) = {1, 3}
    /\ TypeFieldsOf(<<"y">>) = {2}
    /\ document[1].body[1].text = <<"int">>
    /\ Len(params) = 2
    /\ params[1] = [name |-> <<"x">>, arg |-> Arg(<<"str">>, 5)]
    /\ params[2].name = <<"y">>

\* whether the user set allow_named_results, or left the default
NamedResultsAllowed == options_get(options, "allow_named_results", TRUE)

\* a field that documents the result in a way the parser can read: ':rtype:' or
\* ':Yields:' with a body, or ':returns:' with a list whose first item has the
\* named-result shape (when named results are allowed)
IsResultField(field) ==
    \/ /\ NameParts(field) \in {<< <<"rtype">> >>, << <<"Yields">> >>}
       /\ paragraphs(field) # <<>>
    \/ /\ NameParts(field) = << <<"returns">> >>
       /\ list_items(field) # <<>>
       /\ NamedResultsAllowed
       /\ NAMED_RESULTS_REG_match(list_items(field)[1].text).matched

\* C11: the docstring ':param x: d / :type x: int / :rtype: bool', once its
\* tree is built and parsed, gives params = {x: Arg('int', 1)} and result =
\* Arg('bool', 2): the lines are offsets from the first line of the docstring
\* (which is line 0), whatever start line the parser was bound to.
C11_LineOffsets ==
    (pc = "done" /\ docstring = BasicDoc /\ document # <<>>)
    => /\ params = <<[name |-> <<"x">>, arg |-> Arg(<<"int">>, 1)]>>
       /\ result = Arg(<<"bool">>, 2)

\* C12: every call the logger receives carries extra = {file, line, column}
\* with the filename label of the parser, column 0, and the line within the
\* docstring (of the field or paragraph warned about, or of the tree builder's
\* message) plus the parser's start line.
C12_LoggerExtra ==
    \A c \in 1..Len(log) :
        /\ DOMAIN log[c].extra = {"file", "line", "column"}
        /\ log[c].extra.file = filename
        /\ log[c].extra.column = 0
        /\ \/ /\ log[c].message = NAMED_ITEMS_ERROR
              /\ \E k \in 1..i : /\ NameParts(document[k]) = << <<"returns">> >>
                                 /\ list_items(document[k]) # <<>>
                                 /\ log[c].extra.line = document[k].line + line
           \/ /\ log[c].message = YIELDS_ERROR
              /\ \E k \in 1..i : /\ NameParts(document[k]) = << <<"Yields">> >>
                                 /\ paragraphs(document[k]) # <<>>
                                 /\ log[c].extra.line = paragraphs(document[k])[1].line + line
           \/ /\ log[c].message \notin {NAMED_ITEMS_ERROR, YIELDS_ERROR}
              /\ \E ms \in SystemMessages \cup {<<[type |-> "ERROR", text |-> "Severe error.", line |-> 1]>>} :
                    \E m \in 1..Len(ms) : /\ log[c].message = ms[m].text
                                          /\ log[c].extra.line = ms[m].line + line

\* a parser bound to start line 3 of a.py has warned about named results and
\* about a message of the tree builder
C12_Witness ==
    /\ pc = "done"
    /\ line = 3
    /\ filename = "a.py"
    /\ \E c \in 1..Len(log) : log[c].message = NAMED_ITEMS_ERROR /\ log[c].level = "warning"
    /\ \E c \in 1..Len(log) : log[c].message = "Unexpected indentation."

\* the reStructuredText the NumPy docstring with a Parameters section is to
\* be rendered as
ParamsRest ==
    << <<"One", " ", "line", " ", "summary.">>,
       <<>>,
       <<":param", " ", "arg1", ":">>,
       <<":type", " ", "arg1", ":", " ", "Any">>,
       <<":param", " ", "arg2", ":">> >>

\* C19: to_rest of the NumPy docstring keeps the text before the first
\* section and renders the Parameters section, field by field in order, as a
\* ':param <name>:' line followed by ':type <name>: <type>' exactly for the
\* field that has a type; the description is dropped.
C19_ParametersToRest ==
    (pc = "fields" /\ format_cls = "numpy" /\ docstring = NumpyParamsDoc)
    => PopTrailingEmpty(to_rest(format_cls, docstring)) = ParamsRest

\* the reStructuredText of a Returns section with two named fields, and of a
\* Yields section
ReturnsRest ==
    << <<":returns:", " ", "*", " ", "*", "*", "result1", "*", "*", " ", "(", "*", "str", "*", ")">>,
       <<" ", " ", " ", " ", " ", " ", " ", " ", " ", " ",
         "*", " ", "*", "*", "result2", "*", "*", " ", "(", "*", "bool", "*", ")">> >>
YieldsRest == << <<":Yields:", " ", "*", "str", "*">> >>

\* C20: to_rest renders a Returns section with more than one field as one
\* bulleted ':returns:' list with a '* **name** (*type*)' item per field, in
\* order, and no ':rtype:' line, and a Yields section as a ':Yields:' field.
C20_ReturnsToRest ==
    (pc = "fields" /\ format_cls = "numpy")
    => /\ docstring = NumpyReturnsDoc
            => PopTrailingEmpty(to_rest(format_cls, docstring)) = ReturnsRest
       /\ docstring = NumpyYieldsDoc
            => PopTrailingEmpty(to_rest(format_cls, docstring)) = YieldsRest

\* C5: the result is None exactly when the docstring has neither a parsable
\* return/rtype field nor a yields field.
C5_ResultNoneIff ==
    pc = "done" =>
        (result = None <=> ~\E k \in 1..Len(document) : IsResultField(document[k]))

\* a type string as the caller is promised it: not empty, no white space at
\* either end, no newline
IsCleanType(t) ==
    /\ t # <<>>
    /\ ~IsSpace(t[1])
    /\ ~IsSpace(t[Len(t)])
    /\ \A k \in 1..Len(t) : t[k] # "\n"

\* C6: every Arg returned (each params value, and the result) has a clean type.
C6_TypesClean ==
    pc = "done" =>
        /\ \A p \in 1..Len(params) : IsCleanType(params[p].arg.type)
        /\ result # None => IsCleanType(result.type)

\* The type a named entry documents: the text between the first "(" and the
\* next ")" of '<name> (<type>)', or nothing for an entry that is only a name.
EntryType(text) ==
    LET opens == {k \in 1..Len(text) : text[k] = "("}
        closes == {k \in 1..Len(text) : text[k] = ")"}
    IN  IF opens = {} \/ closes = {} \/ Max(closes) < Min(opens) THEN <<>>
        ELSE SubSeq(text, Min(opens) + 1, Min({c \in closes : c > Min(opens)}) - 1)

\* the non-empty types of the entries, in document order
RECURSIVE EntryTypes(_)
EntryTypes(items) ==
    IF items = <<>> THEN <<>>
    ELSE (IF EntryType(Head(items).text) # <<>> THEN <<EntryType(Head(items).text)>> ELSE <<>>)
         \o EntryTypes(Tail(items))

\* C7: a returns field with more than one named entry, named results being
\* allowed, gives Tuple[t1, ..., tn] of the types of exactly the entries that
\* have a type, in document order: a name-only entry is left out and the typed
\* entries after it are kept.
C7_TupleOfTypedEntries ==
    ( /\ pc = "done"
      /\ NamedResultsAllowed
      /\ Len(document) = 1
      /\ NameParts(document[1]) = << <<"returns">> >>
      /\ Len(EntryTypes(list_items(document[1]))) > 1 )
    => result = Arg(TupleOf(EntryTypes(list_items(document[1]))), document[1].line)

\* the warnings with this message that the logger received
Warnings(message) ==
    SelectSeq(log, LAMBDA c : c.level = "warning" /\ c.message = message)

\* C8: the NumPy Returns section with two named entries, allow_named_results
\* being False, gives result None and exactly one NAMED_ITEMS_ERROR warning.
C8_NamedResultsRefused ==
    ( /\ pc = "done"
      /\ docstring = NumpyReturnsDoc
      /\ format_cls = "numpy"
      /\ ~NamedResultsAllowed )
    => (result = None /\ Len(Warnings(NAMED_ITEMS_ERROR)) = 1)

\* C9: a docstring whose only result documentation is one Yields entry of type
\* T parses to Arg('Iterator[T]', line), and no warning is reported for it.
C9_YieldsIterator ==
    ( /\ pc = "done"
      /\ Len(document) = 1
      /\ NameParts(document[1]) = << <<"Yields">> >>
      /\ paragraphs(document[1]) # <<>> )
    => /\ result = Arg(<<"Iterator", "[">> \o paragraphs(document[1])[1].text \o <<"]">>,
                       paragraphs(document[1])[1].line)
       /\ Warnings(YIELDS_ERROR) = <<>>

\* C10: parsing the NumPy docstring with a Yields section reports exactly one
\* YIELDS_ERROR warning and derives no result type.
C10_YieldsWarned ==
    ( /\ pc = "done"
      /\ docstring = NumpyYieldsDoc
      /\ format_cls = "numpy" )
    => (Len(Warnings(YIELDS_ERROR)) = 1 /\ result = None)

----------------------------------------------------------------------------
\* RestDocstring(docstring, logger).parse() of doc484/parsers/rest.py: the
\* field-list parser that returns the raw (params, returns, yields).

\* Reader.pass_to_format_logger of parsers/rest.py: log(text, line=msg['line'])
RECURSIVE rest_pass_to_logger(_)
rest_pass_to_logger(msgs) ==
    IF msgs = <<>> THEN <<>>
    ELSE LET msg == Head(msgs)
             rest == rest_pass_to_logger(Tail(msgs))
         IN  IF msg.type = "ERROR"
             THEN <<[level |-> "error", message |-> msg.text, line |-> msg.line]>> \o rest
             ELSE IF msg.type = "WARNING"
             THEN <<[level |-> "warning", message |-> msg.text, line |-> msg.line]>> \o rest
             ELSE rest

\* lines 83-90: a field named 'returns'; st is [params, returns, yields, raised]
rest_returns_field(field, st) ==
    LET items == list_items(field)
    IN  IF items = <<>> THEN st
        ELSE IF st.returns # None THEN [st EXCEPT !.raised = "AssertionError"]
        ELSE [st EXCEPT !.returns =
                 List([k \in 1..Len(items) |-> Arg(items[k].text, field.line)])]

\* lines 92-109: a field with a one-word name, or named 'type <name>'
rest_typed_field(field, parts, st) ==
    LET paras == paragraphs(field)
    IN  IF paras = <<>> THEN st
        ELSE LET paragraph == paras[1]
                 arg == Arg(_clean_type(paragraph.text), paragraph.line)
             IN  IF Len(parts) = 2
                 THEN [st EXCEPT !.params = Append(@, [name |-> parts[2], arg |-> arg])]
                 ELSE IF parts[1] = <<"rtype">>
                 THEN IF st.returns # None THEN [st EXCEPT !.raised = "AssertionError"]
                      ELSE [st EXCEPT !.returns = List(<<arg>>)]
                 ELSE IF parts[1] = <<"Yields">>
                 THEN IF st.yields # None THEN [st EXCEPT !.raised = "AssertionError"]
                      ELSE [st EXCEPT !.yields = List(<<arg>>)]
                 ELSE st

\* lines 73-109: the body of the loop, for one field
rest_parse_field(field, st) ==
    LET parts == Split(Strip(field.name))
    IN  IF Len(parts) = 1 /\ parts[1] = <<"returns">>
        THEN rest_returns_field(field, st)
        ELSE IF Len(parts) = 1 \/ (Len(parts) = 2 /\ parts[1] = <<"type">>)
        THEN rest_typed_field(field, parts, st)
        ELSE st

\* the reST text handed to RestDocstring
RestText == _cleandoc(RestDoc)

InitRest ==
    /\ docstring \in {RestText, ProseDoc}
    /\ default_format = "rest"
    /\ options = [k \in {} |-> TRUE]
    /\ line = 0
    /\ filename = "<string>"
    /\ IterIdle
    /\ FixIdle
    /\ NapIdle
    /\ format_cls = "none"
    /\ document = <<>>
    /\ i = 0
    /\ params = <<>>
    /\ result = None
    /\ log = <<>>
    /\ returns = None
    /\ yields = None
    /\ raised = "none"
    /\ pc = "parse"

\* lines 63-70, the tree builder answering with a tree
RestParsePublish ==
    /\ pc = "parse"
    /\ \E pub \in publish_doctree(docstring) :
          /\ document' = pub.document
          /\ log' = log \o rest_pass_to_logger(pub.messages)
    /\ pc' = "fields"
    /\ UNCHANGED <<docstring, default_format, options, line, format_cls, i, params, result,
                   returns, yields, raised>>
    /\ UNCHANGED other_vars

\* lines 67-70: the tree builder raises SystemMessage
RestParseSystemMessage ==
    /\ pc = "parse"
    /\ log' = log \o rest_pass_to_logger(
                  <<[type |-> "ERROR", text |-> "Severe error.", line |-> 1]>>)
    /\ pc' = "done"
    /\ UNCHANGED <<docstring, default_format, options, line, format_cls, document, i,
                   params, result, returns, yields, raised>>
    /\ UNCHANGED other_vars

\* lines 72-109: one iteration of the loop; a failed assert leaves parse
RestParseField ==
    /\ pc = "fields"
    /\ i < Len(document)
    /\ LET st == rest_parse_field(document[i + 1],
                     [params |-> params, returns |-> returns, yields |-> yields,
                      raised |-> raised])
       IN  /\ params' = st.params
           /\ returns' = st.returns
           /\ yields' = st.yields
           /\ raised' = st.raised
           /\ pc' = IF st.raised # "none" THEN "raised" ELSE pc
    /\ i' = i + 1
    /\ UNCHANGED <<docstring, default_format, options, line, format_cls, document, result, log>>
    /\ UNCHANGED other_vars

\* line 111
RestParseReturn ==
    /\ pc = "fields"
    /\ i = Len(document)
    /\ pc' = "done"
    /\ UNCHANGED <<docstring, default_format, options, line, format_cls, document, i,
                   params, result, log, returns, yields, raised>>
    /\ UNCHANGED other_vars

NextRest == RestParsePublish \/ RestParseSystemMessage \/ RestParseField \/ RestParseReturn

SpecRest == InitRest /\ [][NextRest]_vars

\* C2: parsing never raises because of the docstring's content: whatever the
\* tree builder answers, the call ends by returning, never by an exception.
C2_NeverRaises == raised = "none" /\ pc # "raised"

----------------------------------------------------------------------------
\* The convention detector and the dispatch of parse_docstring on every short
\* docstring made of the lines the section patterns tell apart.

GuessLines ==
    { <<>>,
      <<"Args:">>,
      <<" ", "Args:">>,
      <<"Returns">>,
      <<"-------">>,
      <<":rtype:", " ", "x">>,
      <<" ", " ", "x">>,
      <<"x">> }

InitGuess ==
    /\ docstring \in SeqsUpTo(GuessLines, MaxDocLines) \ {<<>>}
    /\ default_format \in FormatNames
    /\ options = [k \in {} |-> TRUE]
    /\ line = 0
    /\ filename = "<string>"
    /\ IterIdle
    /\ FixIdle
    /\ NapIdle
    /\ format_cls = "none"
    /\ document = <<>>
    /\ i = 0
    /\ params = <<>>
    /\ result = None
    /\ log = <<>>
    /\ returns = None
    /\ yields = None
    /\ raised = "none"
    /\ pc = "parse_docstring"

SpecGuess == InitGuess /\ [][ParseDocstring]_vars

\* C1: with default_format 'auto' the class is the first of NumPy, Google, reST
\* whose patterns match the dedented docstring, and reST when none matches; a
\* docstring matching a Google and a reST pattern (and no NumPy one) is Google.
C1_FirstMatchWins ==
    (pc = "parse" /\ default_format = "auto") =>
        LET text == cleandoc(docstring)
        IN  /\ NumpyFormat_matches(text) => format_cls = "numpy"
            /\ (~NumpyFormat_matches(text) /\ GoogleFormat_matches(text))
                   => format_cls = "google"
            /\ (~NumpyFormat_matches(text) /\ ~GoogleFormat_matches(text))
                   => format_cls = "rest"

\* a docstring with an Args: block and a line starting with :rtype: came out Google
C1_Witness ==
    /\ pc = "parse"
    /\ default_format = "auto"
    /\ GoogleFormat_matches(cleandoc(docstring))
    /\ RestFormat_matches(cleandoc(docstring))
    /\ format_cls = "google"

\* C3: an explicit known convention name selects that class whatever the
\* docstring looks like; an unknown name raises (KeyError) and selects no class.
C3_ExplicitConvention ==
    pc # "parse_docstring" =>
        /\ default_format \in {"numpy", "google", "rest"} =>
               (format_cls = default_format /\ raised = "none" /\ pc = "parse")
        /\ default_format \notin {"auto", "numpy", "google", "rest"} =>
               (raised = "KeyError" /\ pc = "raised" /\ format_cls = "none")

\* an unknown name raised on a docstring the detector would have called Google
C3_Witness ==
    /\ pc = "raised"
    /\ raised = "KeyError"
    /\ default_format = "sphinx"
    /\ guess_format(docstring) = "google"

----------------------------------------------------------------------------
\* peek_iter and modify_iter of doc484/parsers.py: the line cursor of the
\* NumPy and Google parsers.

\* bounds: the items of the collection, the largest n passed to peek and next
MaxItems == 3
MaxN == 3

\* the lines the collection is made of: a blank line, a word, a word followed
\* by white space
Items == {<<>>, <<"a">>, <<"a", " ">>}

\* peek_iter.sentinel: object(), a value equal to no item
sentinel == <<"object()">>

\* the argument n of peek and next: None, or an int
NArgs == {None} \cup {[n |-> k] : k \in 0..MaxN}

\* 'not n'
Falsy(n) == n = None \/ n.n = 0

\* the modifier GoogleDocstring.__init__ passes: lambda s: s.rstrip()
rstrip(x) == SubSeq(x, 1, Len(x) - TrailingSpace(x))

\* self.modifier(x)
call_modifier(name, x) == IF name = "rstrip" THEN rstrip(x) ELSE x

\* peek_iter.__init__ / modify_iter.__init__
peek_iter_init(items, mod) ==
    [_iterable |-> items, _cache |-> <<>>, modifier |-> mod, modified |-> <<>>]

\* (the sentinel goes through the modifier like an item)
RECURSIVE fill_modifying_sentinel(_, _)
fill_modifying_sentinel(self, n) ==
    IF Len(self._cache) >= n THEN self
    ELSE IF self._iterable # <<>>
    THEN fill_modifying_sentinel([self EXCEPT
                 !._cache = Append(@, call_modifier(self.modifier, Head(self._iterable))),
                 !._iterable = Tail(@),
                 !.modified = IF self.modifier = "none" THEN @
                              ELSE Append(@, Head(self._iterable))], n)
    ELSE fill_modifying_sentinel([self EXCEPT
                 !._cache = Append(@, call_modifier(self.modifier, sentinel)),
                 !.modified = IF self.modifier = "none" THEN @
                              ELSE Append(@, sentinel)], n)

\* the loops of _fillcache, n being at least 1: items of the source while it has
\* any, passed through the modifier by a modify_iter, then the sentinel
RECURSIVE fill(_, _)
fill(self, n) ==
    IF Len(self._cache) >= n THEN self
    ELSE IF self._iterable # <<>>
    THEN fill([self EXCEPT
                 !._cache = Append(@, call_modifier(self.modifier, Head(self._iterable))),
                 !._iterable = Tail(@),
                 !.modified = IF self.modifier = "none" THEN @
                              ELSE Append(@, Head(self._iterable))], n)
    ELSE fill([self EXCEPT !._cache = Append(@, sentinel)], n)

\* peek_iter._fillcache(n) / modify_iter._fillcache(n)
_fillcache(self, n) == fill(self, IF Falsy(n) THEN 1 ELSE n.n)

StopIteration == [kind |-> "raise", value |-> "StopIteration"]

\* (the items looked at are taken out of the cache)
peek_popping(self, n) ==
    LET filled == _fillcache(self, n)
    IN  IF n = None
        THEN [self |-> [filled EXCEPT !._cache = Tail(@)],
              result |-> [kind |-> "item", value |-> filled._cache[1]]]
        ELSE [self |-> [filled EXCEPT !._cache = Drop(@, n.n)],
              result |-> [kind |-> "list", value |-> SubSeq(filled._cache, 1, n.n)]]

\* peek_iter.peek(n)
peek(self, n) ==
    LET filled == _fillcache(self, n)
    IN  [self |-> filled,
         result |-> IF n = None
                    THEN [kind |-> "item", value |-> filled._cache[1]]
                    ELSE [kind |-> "list", value |-> SubSeq(filled._cache, 1, n.n)]]

\* (an item counts as present when it is truthy)
has_next_truthy(self) ==
    LET p == peek(self, None)
    IN  [self |-> p.self,
         result |-> [kind |-> "bool",
                     value |-> p.result.value # sentinel /\ p.result.value # <<>>]]

\* peek_iter.has_next()
has_next(self) ==
    LET p == peek(self, None)
    IN  [self |-> p.self,
         result |-> [kind |-> "bool", value |-> p.result.value # sentinel]]

\* (the items that are there are handed out before the exhaustion is raised)
next_draining(self, n) ==
    LET filled == _fillcache(self, n)
    IN  IF Falsy(n)
        THEN IF filled._cache[1] = sentinel THEN [self |-> filled, result |-> StopIteration]
             ELSE IF n = None
             THEN [self |-> [filled EXCEPT !._cache = Tail(@)],
                   result |-> [kind |-> "item", value |-> filled._cache[1]]]
             ELSE [self |-> filled, result |-> [kind |-> "list", value |-> <<>>]]
        ELSE IF filled._cache[n.n] = sentinel
             THEN [self |-> [filled EXCEPT !._cache = Drop(@, n.n)], result |-> StopIteration]
             ELSE [self |-> [filled EXCEPT !._cache = Drop(@, n.n)],
                   result |-> [kind |-> "list", value |-> SubSeq(filled._cache, 1, n.n)]]

\* (next() hands out the item and leaves it in the cache)
next_repeating(self, n) ==
    LET filled == _fillcache(self, n)
    IN  IF Falsy(n)
        THEN IF filled._cache[1] = sentinel THEN [self |-> filled, result |-> StopIteration]
             ELSE IF n = None
             THEN [self |-> filled,
                   result |-> [kind |-> "item", value |-> filled._cache[1]]]
             ELSE [self |-> filled, result |-> [kind |-> "list", value |-> <<>>]]
        ELSE IF filled._cache[n.n] = sentinel
             THEN [self |-> filled, result |-> StopIteration]
             ELSE [self |-> [filled EXCEPT !._cache = Drop(@, n.n)],
                   result |-> [kind |-> "list", value |-> SubSeq(filled._cache, 1, n.n)]]

\* peek_iter.next(n)
next(self, n) ==
    LET filled == _fillcache(self, n)
    IN  IF Falsy(n)
        THEN IF filled._cache[1] = sentinel THEN [self |-> filled, result |-> StopIteration]
             ELSE IF n = None
             THEN [self |-> [filled EXCEPT !._cache = Tail(@)],
                   result |-> [kind |-> "item", value |-> filled._cache[1]]]
             ELSE [self |-> filled, result |-> [kind |-> "list", value |-> <<>>]]
        ELSE IF filled._cache[n.n] = sentinel
             THEN [self |-> filled, result |-> StopIteration]
             ELSE [self |-> [filled EXCEPT !._cache = Drop(@, n.n)],
                   result |-> [kind |-> "list", value |-> SubSeq(filled._cache, 1, n.n)]]

\* the iterator object, from the variables
Self == [_iterable |-> _iterable, _cache |-> _cache, modifier |-> modifier,
         modified |-> modified]

\* no call of the docstring parsers is under way
ParseIdle ==
    /\ docstring = <<>>
    /\ default_format = "auto"
    /\ options = [k \in {} |-> TRUE]
    /\ line = 0
    /\ filename = "<string>"
    /\ format_cls = "none"
    /\ document = <<>>
    /\ i = 0
    /\ params = <<>>
    /\ result = None
    /\ log = <<>>
    /\ returns = None
    /\ yields = None
    /\ raised = "none"
    /\ pc = "done"

\* peek_iter(o) or modify_iter(o, modifier=lambda s: s.rstrip())
InitIter ==
    /\ ParseIdle
    /\ FixIdle
    /\ NapIdle
    /\ o \in SeqsUpTo(Items, MaxItems)
    /\ modifier \in {"none", "rstrip"}
    /\ _iterable = peek_iter_init(o, modifier)._iterable
    /\ _cache = peek_iter_init(o, modifier)._cache
    /\ modified = peek_iter_init(o, modifier).modified
    /\ taken = <<>>
    /\ ret = [op |-> "none"]

\* the object after a call, and the record of the call
Called(op, n, r) ==
    /\ _iterable' = r.self._iterable
    /\ _cache' = r.self._cache
    /\ modified' = r.self.modified
    /\ ret' = [op |-> op, n |-> n, kind |-> r.result.kind, value |-> r.result.value]

\* a call of peek() or peek(n)
IterPeek ==
    /\ \E n \in NArgs : Called("peek", n, peek(Self, n))
    /\ UNCHANGED <<o, modifier, taken>>
    /\ UNCHANGED <<parse_vars, fix_vars, nap_vars>>

\* a call of has_next()
IterHasNext ==
    /\ Called("has_next", None, has_next(Self))
    /\ UNCHANGED <<o, modifier, taken>>
    /\ UNCHANGED <<parse_vars, fix_vars, nap_vars>>

\* a call of next() or next(n)
IterNext ==
    /\ \E n \in NArgs :
          LET r == next(Self, n)
          IN  /\ Called("next", n, r)
              /\ taken' = taken \o (IF r.result.kind = "item" THEN <<r.result.value>>
                                    ELSE IF r.result.kind = "list" THEN r.result.value
                                    ELSE <<>>)
    /\ UNCHANGED <<o, modifier>>
    /\ UNCHANGED <<parse_vars, fix_vars, nap_vars>>

NextIter == IterPeek \/ IterHasNext \/ IterNext

SpecIter == InitIter /\ [][NextIter]_vars

----------------------------------------------------------------------------
\* Properties of the line cursor.

\* the items of the collection that no call of next has returned yet
Remaining == Drop(o, Len(taken))

\* the same, as the caller is to see them: through the modifier
RemainingSeen == [k \in 1..Len(Remaining) |-> call_modifier(modifier, Remaining[k])]

\* C13: peek and has_next never advance the cursor: whatever calls were made,
\* next() and next(n) return what they return on a cursor freshly made over
\* the items not consumed yet, on which nothing was ever peeked.
C13_PeekDoesNotAdvance ==
    \A n \in NArgs :
        next(Self, n).result = next(peek_iter_init(Remaining, modifier), n).result

\* some items consumed, then a look two items ahead with both still to come
C13_Witness ==
    /\ ret.op = "peek"
    /\ ret.n = [n |-> 2]
    /\ taken # <<>>
    /\ Len(Remaining) >= 2

\* C14: has_next() is true exactly when an item is left, a blank line
\* included; peek() gives the sentinel exactly when none is left; peek(n) gives
\* n entries, the items left in order and then sentinels; neither call raises.
C14_ExhaustionExact ==
    /\ has_next(Self).result = [kind |-> "bool", value |-> Remaining # <<>>]
    /\ peek(Self, None).result.kind = "item"
    /\ (peek(Self, None).result.value = sentinel) <=> (Remaining = <<>>)
    /\ \A k \in 0..MaxN :
          /\ peek(Self, [n |-> k]).result.kind = "list"
          /\ Len(peek(Self, [n |-> k]).result.value) = k
          /\ \A j \in 1..k :
                peek(Self, [n |-> k]).result.value[j]
                    = IF j <= Len(Remaining) THEN RemainingSeen[j] ELSE sentinel
    /\ ret.op \in {"peek", "has_next"} => ret.kind # "raise"

\* has_next() answered True in front of a blank line
C14_Witness ==
    /\ ret.op = "has_next"
    /\ ret.value = TRUE
    /\ Remaining # <<>>
    /\ Head(Remaining) = <<>>

\* the items a caller gets by calling next() until it raises
RECURSIVE ReadAll(_)
ReadAll(self) ==
    LET r == next(self, None)
    IN  IF r.result.kind = "raise" THEN <<>>
        ELSE <<r.result.value>> \o ReadAll(r.self)

\* C15: next() and next(0) raise StopIteration when no item is left; next(n),
\* n >= 1, returns the next n items in order and removes exactly them; with
\* fewer than n items left it raises StopIteration and removes nothing: the
\* items left can still be read one by one.
C15_NextExact ==
    /\ Remaining = <<>> =>
          /\ next(Self, None).result = StopIteration
          /\ next(Self, [n |-> 0]).result = StopIteration
    /\ \A k \in 1..MaxN :
          LET r == next(Self, [n |-> k])
          IN  IF k <= Len(Remaining)
              THEN /\ r.result = [kind |-> "list", value |-> SubSeq(RemainingSeen, 1, k)]
                   /\ ReadAll(r.self) = Drop(RemainingSeen, k)
              ELSE /\ r.result = StopIteration
                   /\ ReadAll(r.self) = RemainingSeen

\* next(2) raised with one item left
C15_Witness ==
    /\ ret.op = "next"
    /\ ret.n = [n |-> 2]
    /\ ret.kind = "raise"
    /\ Len(Remaining) = 1
    /\ taken # <<>>

\* C16: a modify_iter has called its modifier exactly once for each item it
\* has produced (returned, or only looked at), in the order of the source,
\* however often the item was peeked; the sentinel was never passed to it.
C16_ModifiedOnce ==
    modifier # "none" =>
        /\ modified = SubSeq(o, 1, Len(o) - Len(_iterable))
        /\ Len(modified) = Len(taken) + Cardinality({k \in 1..Len(_cache) : _cache[k] # sentinel})
        /\ \A k \in 1..Len(modified) : modified[k] # sentinel
        /\ \A k \in 1..Len(taken) : taken[k] = rstrip(o[k])

\* two items looked at beyond the end of the source, one of them with trailing
\* white space, and none consumed
C16_Witness ==
    /\ modifier = "rstrip"
    /\ ret.op = "peek"
    /\ Len(o) = 2
    /\ o[2] = <<"a", " ">>
    /\ taken = <<>>
    /\ _cache = <<rstrip(o[1]), <<"a">>, sentinel>>

\* the real items of the lookahead cache, in order
CacheItems == SelectSeq(_cache, LAMBDA x : x # sentinel)

\* C27: over the whole life of a cursor the items returned by the calls of
\* next() and next(n) that succeeded are, concatenated, a prefix of the
\* collection in its order (as seen through the modifier), none skipped and
\* none repeated: the items still in the cache and in the source are exactly
\* the ones that follow it, whatever calls of peek(n), has_next() and raising
\* next(n) came in between; in the cache no real item comes after a sentinel.
C27_TakenIsPrefix ==
    /\ Len(taken) <= Len(o)
    /\ \A k \in 1..Len(taken) : taken[k] = call_modifier(modifier, o[k])
    /\ CacheItems \o [k \in 1..Len(_iterable) |-> call_modifier(modifier, _iterable[k])]
           = RemainingSeen
    /\ \A j \in 1..Len(_cache) : \A k \in 1..Len(_cache) :
          (j < k /\ _cache[j] = sentinel) => _cache[k] = sentinel

\* next(3) has just raised after an item was consumed: the cache holds the one
\* item left and sentinels behind it
C27_Witness ==
    /\ ret.op = "next"
    /\ ret.n = [n |-> 3]
    /\ ret.kind = "raise"
    /\ Len(taken) = 1
    /\ Len(CacheItems) = 1
    /\ Len(_cache) = 3

----------------------------------------------------------------------------
\* FixTypeComments.transform of doc484/fixes/fix_type_comments.py, and
\* convert_string of doc484/convert.py: the type comment of one function.

\* bound: the arguments of the function
MaxArgs == 2

\* a Python str where None is possible too
Str(t) == [str |-> t]

\* the lines a comment in front of the docstring is made of
NoTypeLine == [text |-> "# notype"]
OtherLine == [text |-> "# c"]
\* '# type: (%s) -> %s' % (', '.join(types), returns)
TypeComment(types, rtype) == [types |-> types, returns |-> rtype]

\* an argument of the definition: its name and '', '*' or '**'
ArgValues ==
    { [value |-> "self", kind |-> <<>>], [value |-> "cls", kind |-> <<>>],
      [value |-> "one", kind |-> <<>>], [value |-> "one", kind |-> <<"*">>],
      [value |-> "one", kind |-> <<"*", "*">>] }

\* the comments found in front of a docstring
Comments ==
    { <<>>, <<NoTypeLine>>, <<OtherLine>>, <<TypeComment(<< <<"int">> >>, <<"int">>)>> }

\* docstrings: none, the empty one, one with text
Docstrings == {None, Str(""), Str("doc")}

\* the function definitions handed to the fixer; a definition on one line has
\* no indented suite, hence neither comment nor docstring
Funcs ==
    { [name |-> n, is_method |-> m, indented |-> TRUE, args |-> a, comment |-> c,
       docstring |-> d, class_docstring |-> cd] :
         n \in {"foo", "__init__"}, m \in BOOLEAN, a \in SeqsUpTo(ArgValues, MaxArgs),
         c \in Comments, d \in Docstrings, cd \in {None, Str("doc")} }
    \cup
    { [name |-> "foo", is_method |-> m, indented |-> FALSE, args |-> <<>>, comment |-> <<>>,
       docstring |-> None, class_docstring |-> None] : m \in BOOLEAN }

\* what formats.parse_docstring may return for a docstring with text
ParsedValues ==
    { [params |-> ps, result |-> r] :
         ps \in { <<>>,
                  <<[name |-> "one", arg |-> Arg(<<"str">>, 2)]>>,
                  <<[name |-> "one", arg |-> Arg(<<>>, 2)]>>,
                  <<[name |-> "one", arg |-> Arg(<<"*", "str">>, 2)]>>,
                  <<[name |-> "self", arg |-> Arg(<<"Foo">>, 1)]>>,
                  <<[name |-> "self", arg |-> Arg(<<"Foo">>, 1)],
                    [name |-> "one", arg |-> Arg(<<"str">>, 2)]>> },
         r \in {None, Arg(<<"bool">>, 3), Arg(<<>>, 3)} }

\* the values of formats.default_arg_types: empty, or filled from the
\* [doc484:default_arg_types] section of the configuration
DefaultArgTypes ==
    { <<>>,
      <<[name |-> "self", type |-> <<"Foo">>], [name |-> "one", type |-> <<"int">>]>> }

\* formats.default_return_type
default_return_type == <<"Any">>

\* SPECIAL_METHOD_RETURN
SPECIAL_METHOD_RETURN == [n \in {"__init__"} |-> <<"None">>]

\* _get_type(typ, default) of fix_type_comments.py
_get_type(typ, default) == IF typ = None THEN default ELSE typ.str

\* s.strip('*')
RECURSIVE strip_stars(_)
strip_stars(t) ==
    IF t # <<>> /\ Head(t) = "*" THEN strip_stars(Tail(t))
    ELSE IF t # <<>> /\ t[Len(t)] = "*" THEN strip_stars(SubSeq(t, 1, Len(t) - 1))
    ELSE t

\* is_type_comment(comment): the comment starts with '# type:'
is_type_comment(comment) == comment # <<>> /\ "types" \in DOMAIN Head(comment)

\* (self and cls are never left out)
keep_arg_always(k, arg_name, typ) == TRUE

\* keep_arg(i, arg_name, typ): k is i counted from 0
keep_arg(k, arg_name, typ) ==
    ~(k = 0 /\ arg_name \in {"self", "cls"} /\ typ = None)

\* the children of the typedargslist node: stars, names, commas
RECURSIVE children(_)
children(args) ==
    IF args = <<>> THEN <<>>
    ELSE (IF Head(args).kind = <<"*">> THEN <<[type |-> "STAR"]>>
          ELSE IF Head(args).kind = <<"*", "*">> THEN <<[type |-> "DOUBLESTAR"]>>
          ELSE <<>>)
         \o <<[type |-> "NAME", value |-> Head(args).value]>>
         \o (IF Len(args) > 1 THEN <<[type |-> "COMMA"]>> ELSE <<>>)
         \o children(Tail(args))

\* transform, lines 184-199: arg_list and kind_list, as one list of [value, kind]
RECURSIVE arg_list(_, _, _)
arg_list(nodes, consume, kind) ==
    IF nodes = <<>> THEN <<>>
    ELSE LET arg == Head(nodes)
         IN  IF consume /\ arg.type = "NAME"
             THEN <<[value |-> arg.value, kind |-> kind]>> \o arg_list(Tail(nodes), FALSE, kind)
             ELSE IF consume /\ arg.type = "STAR" THEN arg_list(Tail(nodes), consume, <<"*">>)
             ELSE IF consume /\ arg.type = "DOUBLESTAR"
             THEN arg_list(Tail(nodes), consume, <<"*", "*">>)
             ELSE IF arg.type = "COMMA" THEN arg_list(Tail(nodes), TRUE, <<>>)
             ELSE arg_list(Tail(nodes), consume, kind)

\* d.get(name) on a dict kept as a sequence of [name, type]: Str or None
dict_get(d, name) ==
    LET hits == SelectSeq(d, LAMBDA e : e.name = name)
    IN  IF hits = <<>> THEN None ELSE Str(hits[Len(hits)].type)

\* FixTypeComments.parse_docstring(docstring, line): the types that are not
\* empty, and the type of the result
fixer_parse_docstring(doc, p) ==
    IF doc.str # ""
    THEN [params |-> [k \in 1..Len(SelectSeq(p.params, LAMBDA e : e.arg.type # <<>>)) |->
                        [name |-> SelectSeq(p.params, LAMBDA e : e.arg.type # <<>>)[k].name,
                         type |-> SelectSeq(p.params, LAMBDA e : e.arg.type # <<>>)[k].arg.type]],
          result |-> IF p.result # None THEN Str(p.result.type) ELSE None]
    ELSE [params |-> <<>>, result |-> None]

\* (a docstring without types is handled like any other)
no_types_never(pr) == FALSE

\* transform, line 176: 'not params and not result'
no_types(pr) == pr.params = <<>> /\ (pr.result = None \/ pr.result.str = <<>>)

\* transform, lines 206-211: the types of the arguments kept
RECURSIVE arg_types(_, _, _, _, _)
arg_types(args, k, pr_params, defaults, is_method) ==
    IF args = <<>> THEN <<>>
    ELSE LET arg == Head(args)
             documented == dict_get(pr_params, arg.value)
             typ == IF documented = None /\ defaults # <<>>
                    THEN dict_get(defaults, arg.value) ELSE documented
         IN  (IF ~is_method \/ keep_arg(k, arg.value, typ)
              THEN <<arg.kind \o strip_stars(_get_type(typ, <<"Any">>))>> ELSE <<>>)
             \o arg_types(Tail(args), k + 1, pr_params, defaults, is_method)

\* the text of a comment: its lines, each behind the indentation of the suite
\* as in indent_node.prefix, or without any as in typestr
comment_text(comment, indented) ==
    [k \in 1..Len(comment) |-> [indented |-> indented, text |-> comment[k]]]

\* FixTypeComments.transform(node, results): the comment afterwards, and
\* whether the node was changed
transform(f, p, defaults) ==
    LET unchanged == [prefix |-> f.comment, changed |-> FALSE]
        doc == IF f.docstring = None /\ f.name = "__init__" /\ f.is_method
               THEN f.class_docstring ELSE f.docstring
    IN  IF ~f.indented THEN unchanged
        ELSE IF f.comment = <<NoTypeLine>> THEN unchanged
        ELSE IF doc = None THEN unchanged
        ELSE LET pr == fixer_parse_docstring(doc, p)
                 types == arg_types(arg_list(children(f.args), TRUE, <<>>), 0,
                                    pr.params, defaults, f.is_method)
                 default_return ==
                     IF f.is_method /\ f.name \in DOMAIN SPECIAL_METHOD_RETURN
                     THEN SPECIAL_METHOD_RETURN[f.name] ELSE default_return_type
                 typestr == <<TypeComment(types, _get_type(pr.result, default_return))>>
             IN  IF no_types(pr) THEN unchanged
                 ELSE IF comment_text(f.comment, TRUE) = comment_text(typestr, FALSE)
                 THEN unchanged
                 ELSE [prefix |-> IF f.comment # <<>> /\ ~is_type_comment(f.comment)
                                  THEN typestr \o f.comment ELSE typestr,
                       changed |-> TRUE]

\* convert_string, lines 40-50: the types of the arguments kept
RECURSIVE convert_types(_, _, _)
convert_types(args, k, params_) ==
    IF args = <<>> THEN <<>>
    ELSE LET hits == SelectSeq(params_, LAMBDA e : e.name = Head(args).value)
             typ == IF hits = <<>> THEN None ELSE hits[Len(hits)].arg
         IN  (IF k = 0 /\ Head(args).value \in {"self", "cls"} /\ typ = None THEN <<>>
              ELSE <<IF typ = None THEN <<"Any">> ELSE typ.type>>)
             \o convert_types(Tail(args), k + 1, params_)

\* convert_string(contents), for one 'def' of the contents
convert_string(f, p) ==
    IF f.docstring = None THEN [prefix |-> f.comment, changed |-> FALSE]
    ELSE LET typestr == TypeComment(convert_types(f.args, 0, p.params),
                                    IF p.result = None THEN <<"Any">> ELSE p.result.type)
         IN  [prefix |-> IF is_type_comment(f.comment)
                         THEN <<typestr>> \o Tail(f.comment)
                         ELSE <<typestr>> \o f.comment,
              changed |-> TRUE]

\* parse_docstring on the empty docstring: no params, no result
EmptyParsed == [params |-> <<>>, result |-> None]

\* the parse results possible for a docstring
ParsedFor(doc) == IF doc.str = "" THEN {EmptyParsed} ELSE ParsedValues

InitFix ==
    /\ ParseIdle
    /\ IterIdle
    /\ NapIdle
    /\ func \in Funcs
    /\ default_arg_types \in DefaultArgTypes
    /\ parsed = None
    /\ out = [prefix |-> func.comment, changed |-> FALSE]
    /\ again = [prefix |-> <<>>, changed |-> FALSE]
    /\ fpc = "start"

\* the docstring the fixer parses, if it gets as far as parsing
FixerDocstring ==
    IF func.docstring = None /\ func.name = "__init__" /\ func.is_method
    THEN func.class_docstring ELSE func.docstring

\* the refactoring tool applies the fixer to the definition
FixTransform ==
    /\ fpc = "start"
    /\ IF func.indented /\ func.comment # <<NoTypeLine>> /\ FixerDocstring # None
       THEN \E p \in ParsedFor(FixerDocstring) :
               /\ parsed' = (IF FixerDocstring.str # "" THEN p ELSE None)
               /\ out' = transform(func, p, default_arg_types)
       ELSE /\ parsed' = None
            /\ out' = transform(func, EmptyParsed, default_arg_types)
    /\ fpc' = "fixed"
    /\ UNCHANGED <<func, default_arg_types, again>>
    /\ UNCHANGED <<parse_vars, iter_vars, nap_vars>>

\* convert_string visits the definition (arguments without stars)
ConvertDef ==
    /\ fpc = "start"
    /\ func.indented
    /\ \A k \in 1..Len(func.args) : func.args[k].kind = <<>>
    /\ IF func.docstring # None
       THEN \E p \in ParsedFor(func.docstring) :
               /\ parsed' = p
               /\ out' = convert_string(func, p)
       ELSE /\ parsed' = None
            /\ out' = convert_string(func, EmptyParsed)
    /\ fpc' = "converted"
    /\ UNCHANGED <<func, default_arg_types, again>>
    /\ UNCHANGED <<parse_vars, iter_vars, nap_vars>>

\* the refactoring tool applies the fixer again, to the definition as the
\* first pass left it: same arguments and docstring, the comment now being the
\* one the first pass wrote
FixAgain ==
    /\ fpc = "fixed"
    /\ again' = transform([func EXCEPT !.comment = out.prefix],
                          IF parsed = None THEN EmptyParsed ELSE parsed,
                          default_arg_types)
    /\ fpc' = "fixed_twice"
    /\ UNCHANGED <<func, default_arg_types, parsed, out>>
    /\ UNCHANGED <<parse_vars, iter_vars, nap_vars>>

NextFix == FixTransform \/ FixAgain \/ ConvertDef

SpecFix == InitFix /\ [][NextFix]_vars

----------------------------------------------------------------------------
\* Properties of the type comment.

\* the first argument has a type: documented in the docstring (not empty), or
\* configured as the default for its name
FirstArgHasType ==
    \/ parsed # None /\ \E k \in 1..Len(parsed.params) :
          parsed.params[k].name = func.args[1].value /\ parsed.params[k].arg.type # <<>>
    \/ \E k \in 1..Len(default_arg_types) : default_arg_types[k].name = func.args[1].value

\* C17: in the type comment built for a function with arguments, the first
\* argument is left out exactly when it is named self or cls, has no type and
\* the function is a method; self as first argument of a plain function is
\* kept, typed Any when it has no type.
C17_SelfLeftOutOfMethodsOnly ==
    (fpc \in {"fixed", "converted"} /\ out.changed /\ func.args # <<>>)
    => LET types == Head(out.prefix).types
           left_out == /\ func.args[1].value \in {"self", "cls"}
                       /\ ~FirstArgHasType
                       /\ func.is_method
       IN  /\ Len(types) = IF left_out THEN Len(func.args) - 1 ELSE Len(func.args)
           /\ (~func.is_method /\ func.args[1].value = "self" /\ ~FirstArgHasType)
                  => types[1] = <<"Any">>

\* the function has no docstring, and is no __init__ of a class with one
NoDocstring ==
    /\ func.docstring = None
    /\ ~(func.name = "__init__" /\ func.is_method /\ func.class_docstring # None)

\* the docstring the fixer used gave no parameter type and no result type
NoTypesFound ==
    /\ func.indented
    /\ FixerDocstring # None
    /\ \/ FixerDocstring.str = ""
       \/ /\ parsed # None
          /\ \A k \in 1..Len(parsed.params) : parsed.params[k].arg.type = <<>>
          /\ (parsed.result = None \/ parsed.result.type = <<>>)

\* C18: the fixer leaves the function as it is when it has no docstring (and
\* no class docstring stands in for __init__), when its comment is exactly
\* '# notype', or when the docstring gives no parameter type and no result
\* type; an existing type comment then stays as it was.
C18_LeftUnchanged ==
    (fpc = "fixed" /\ (NoDocstring \/ func.comment = <<NoTypeLine>> \/ NoTypesFound))
    => out = [prefix |-> func.comment, changed |-> FALSE]

\* a function with a type comment and a docstring without any type, fixed
C18_Witness ==
    /\ fpc = "fixed"
    /\ is_type_comment(func.comment)
    /\ func.docstring = Str("doc")
    /\ parsed = [params |-> <<[name |-> "one", arg |-> Arg(<<>>, 2)]>>, result |-> None]
    /\ out.prefix = func.comment

----------------------------------------------------------------------------
\* GoogleDocstring and NumpyDocstring of doc484/parsers.py: the section
\* parser.  Here ":" is a token of its own, a section name is made of words
\* ("Args"; "See", " ", "Also"), an underline of underline characters.  The
\* lines reach the parser through _cleandoc, hence without backquotes.

\* bound: the lines of the docstring handed to the parser
MaxLines == 4

\* c.lower() for a token
Lower(t) ==
    CASE t = "Args" -> "args"
      [] t = "Returns" -> "returns"
      [] t = "Yields" -> "yields"
      [] t = "Parameters" -> "parameters"
      [] t = "Notes" -> "notes"
      [] OTHER -> t

\* s.lower()
lower(s) == [k \in 1..Len(s) |-> Lower(s[k])]

\* the keys of GoogleDocstring._sections, by handler
ParameterSections == {<<"args">>, <<"arguments">>, <<"parameters">>}
ReturnsSections == {<<"return">>, <<"returns">>}
YieldsSections == {<<"yield">>, <<"yields">>}
SkipSections ==
    { <<"attributes">>, <<"example">>, <<"examples">>, <<"keyword", " ", "args">>,
      <<"keyword", " ", "arguments">>, <<"methods">>, <<"note">>, <<"notes">>,
      <<"other", " ", "parameters">>, <<"raises">>, <<"references">>,
      <<"see", " ", "also">>, <<"todo">>, <<"warning">>, <<"warnings">>, <<"warns">> }

\* GoogleDocstring._sections: lowercased section name -> handler
_sections ==
    [n \in ParameterSections \cup ReturnsSections \cup YieldsSections \cup SkipSections |->
        IF n \in ParameterSections THEN "_parse_parameters_section"
        ELSE IF n \in ReturnsSections THEN "_parse_returns_section"
        ELSE IF n \in YieldsSections THEN "_parse_yields_section"
        ELSE "_skip_section"]

\* NumpyDocstring._directive_sections: '.. index::'
_directive_sections == {<<"..", " ", "index", "::">>}

\* the characters of [=\-`:'"~^_*+#<>] in _numpy_section_regex ("::" is two
\* of them)
UnderlineChars ==
    {"=", "-", "BACKTICK", ":", "::", "'", "\"", "~", "^", "_", "*", "+", "#", "<", ">"}

\* a token of \w characters
IsWordToken(t) == IsWord(t) /\ t \notin UnderlineChars \cup {".."}

\* the value of an expression, or the exception it raised
Val(v) == [value |-> v]
Raise(e) == [raise |-> e]
IsRaise(r) == "raise" \in DOMAIN r

\* self._line_iter.has_next(), the cursor having handed out p lines
cursor_has_next(p) == p < Len(_lines)

\* self._line_iter.peek(k)[k - 1]: the k-th line ahead as the modifier
\* (rstrip) returns it, or the sentinel past the last line
peek_ahead(p, k) == IF p + k <= Len(_lines) THEN rstrip(_lines[p + k]) ELSE sentinel

\* GoogleDocstring._get_indent(line)
_get_indent(s) == LeadingSpace(s)

\* GoogleDocstring._is_indented(line, indent)
_is_indented(s, indent) ==
    /\ Len(s) > indent
    /\ \A k \in 1..indent : IsSpace(s[k])

\* GoogleDocstring._get_current_indent(peek_ahead): the indent of the first
\* line that is not empty, from the one 'ahead' lines after the next; 0 when
\* the sentinel comes first
RECURSIVE _get_current_indent(_, _)
_get_current_indent(p, ahead) ==
    LET s == peek_ahead(p, ahead + 1)
    IN  IF s = sentinel THEN 0
        ELSE IF s # <<>> THEN _get_indent(s)
        ELSE _get_current_indent(p, ahead + 1)

\* _google_section_regex.match(s): ^(\s|\w)+:\s*$
_google_section_regex_match(s) ==
    LET t == rstrip(s)
    IN  /\ Len(t) >= 2
        /\ t[Len(t)] = ":"
        /\ \A k \in 1..Len(t) - 1 : IsSpace(t[k]) \/ IsWordToken(t[k])

\* _numpy_section_regex.match(s): ^[=\-`:'"~^_*+#<>]{2,}\s*$
_numpy_section_regex_match(s) ==
    LET t == rstrip(s)
    IN  /\ \A k \in 1..Len(t) : t[k] \in UnderlineChars
        /\ Len(t) >= 2 \/ t = <<"::">>

\* _directive_regex.match(s): \.\. \S+::
_directive_regex_match(s) ==
    /\ Len(s) >= 4
    /\ s[1] = ".."
    /\ s[2] = " "
    /\ \E j \in 4..Len(s) : s[j] = "::" /\ \A k \in 3..j - 1 : ~IsSpace(s[k])

\* s.strip(':')
RECURSIVE strip_colons(_)
strip_colons(s) ==
    IF s # <<>> /\ Head(s) \in {":", "::"} THEN strip_colons(Tail(s))
    ELSE IF s # <<>> /\ s[Len(s)] \in {":", "::"}
    THEN strip_colons(SubSeq(s, 1, Len(s) - 1))
    ELSE s

\* (a header needs no deeper line after it)
google_is_section_header_any_indent(p) ==
    IF peek_ahead(p, 1) = sentinel THEN Raise("AttributeError")
    ELSE LET s == lower(peek_ahead(p, 1))
         IN  Val(_google_section_regex_match(s) /\ strip_colons(s) \in DOMAIN _sections)

\* GoogleDocstring._is_section_header(): .lower() on the sentinel raises
\* AttributeError; _directive_sections is empty
google_is_section_header(p) ==
    IF peek_ahead(p, 1) = sentinel THEN Raise("AttributeError")
    ELSE LET s == lower(peek_ahead(p, 1))
         IN  IF _google_section_regex_match(s) /\ strip_colons(s) \in DOMAIN _sections
             THEN Val(_get_current_indent(p, 1) > _get_indent(s))
             ELSE Val(FALSE)

\* (the line after the name is not looked at)
numpy_is_section_header_no_underline(p) ==
    IF peek_ahead(p, 1) = sentinel THEN Raise("AttributeError")
    ELSE LET s == lower(peek_ahead(p, 1))
         IN  IF s \in DOMAIN _sections THEN Val(TRUE)
             ELSE Val(_directive_regex_match(s)
                      /\ \E d \in _directive_sections : StartsWith(s, d))

\* NumpyDocstring._is_section_header()
numpy_is_section_header(p) ==
    IF peek_ahead(p, 1) = sentinel THEN Raise("AttributeError")
    ELSE LET s == lower(peek_ahead(p, 1))
             underline == peek_ahead(p, 2)
         IN  IF s \in DOMAIN _sections /\ underline # sentinel
             THEN Val(_numpy_section_regex_match(underline))
             ELSE Val(_directive_regex_match(s)
                      /\ \E d \in _directive_sections : StartsWith(s, d))

\* self._is_section_header(), by class
_is_section_header(p) ==
    IF style = "numpy" THEN numpy_is_section_header(p) ELSE google_is_section_header(p)

\* (the end of the lines is not looked for)
google_is_section_break_unguarded(p) ==
    LET s == peek_ahead(p, 1)
        h == _is_section_header(p)
    IN  IF IsRaise(h) THEN h
        ELSE Val(h.value \/ (_is_in_section /\ s # <<>> /\ ~_is_indented(s, _section_indent)))

\* GoogleDocstring._is_section_break(): 'or' evaluates the header test only
\* when has_next() is true
google_is_section_break(p) ==
    LET s == peek_ahead(p, 1)
    IN  IF ~cursor_has_next(p) THEN Val(TRUE)
        ELSE LET h == _is_section_header(p)
             IN  IF IsRaise(h) THEN h
                 ELSE Val(h.value
                          \/ (_is_in_section /\ s # <<>> /\ ~_is_indented(s, _section_indent)))

\* (a line that leaves the indentation of the section does not end it)
numpy_is_section_break_no_dedent(p) ==
    LET line1 == peek_ahead(p, 1)
        line2 == peek_ahead(p, 2)
    IN  IF ~cursor_has_next(p) THEN Val(TRUE)
        ELSE LET h == _is_section_header(p)
             IN  IF IsRaise(h) THEN h
                 ELSE Val(h.value \/ (line1 = <<>> /\ line2 = <<>>))

\* NumpyDocstring._is_section_break()
numpy_is_section_break(p) ==
    LET line1 == peek_ahead(p, 1)
        line2 == peek_ahead(p, 2)
    IN  IF ~cursor_has_next(p) THEN Val(TRUE)
        ELSE LET h == _is_section_header(p)
             IN  IF IsRaise(h) THEN h
                 ELSE Val(h.value
                          \/ (line1 = <<>> /\ line2 = <<>>)
                          \/ (_is_in_section /\ line1 # <<>>
                              /\ ~_is_indented(line1, _section_indent)))

\* self._is_section_break(), by class
_is_section_break(p) ==
    IF style = "numpy" THEN numpy_is_section_break(p) ELSE google_is_section_break(p)

\* The loops below return the position of the cursor afterwards, the lines
\* they took and the exception that ended them, if any.
Took(p, ls) == [pos |-> p, lines |-> ls, raise |-> "none"]
Raised(p, e) == [pos |-> p, lines |-> <<>>, raise |-> e]

\* next(self._line_iter): StopIteration when no line is left
cursor_next(p) ==
    IF cursor_has_next(p) THEN Took(p + 1, <<peek_ahead(p, 1)>>)
    ELSE Raised(p, "StopIteration")

\* r, an outcome of the rest of a loop, after the lines ls were taken
After(ls, r) == [r EXCEPT !.lines = ls \o @]

\* GoogleDocstring._consume_empty()
RECURSIVE _consume_empty(_)
_consume_empty(p) ==
    IF cursor_has_next(p) /\ peek_ahead(p, 1) = <<>>
    THEN After(<<peek_ahead(p, 1)>>, _consume_empty(p + 1))
    ELSE Took(p, <<>>)

\* (the first line is returned and the cursor stays where it is)
_consume_contiguous_staying(p) ==
    IF cursor_has_next(p) /\ peek_ahead(p, 1) # <<>>
    THEN Took(p, <<peek_ahead(p, 1)>>)
    ELSE Took(p, <<>>)

\* GoogleDocstring._consume_contiguous()
RECURSIVE _consume_contiguous(_)
_consume_contiguous(p) ==
    IF cursor_has_next(p) /\ peek_ahead(p, 1) # <<>>
    THEN LET h == _is_section_header(p)
         IN  IF IsRaise(h) THEN Raised(p, h.raise)
             ELSE IF ~h.value THEN After(<<peek_ahead(p, 1)>>, _consume_contiguous(p + 1))
             ELSE Took(p, <<>>)
    ELSE Took(p, <<>>)

\* GoogleDocstring._consume_indented_block(indent): enumerate() on the
\* sentinel raises TypeError
RECURSIVE _consume_indented_block(_, _)
_consume_indented_block(p, indent) ==
    LET s == peek_ahead(p, 1)
        b == _is_section_break(p)
    IN  IF IsRaise(b) THEN Raised(p, b.raise)
        ELSE IF b.value THEN Took(p, <<>>)
        ELSE IF s = sentinel THEN Raised(p, "TypeError")
        ELSE IF s = <<>> \/ _is_indented(s, indent)
        THEN LET n == cursor_next(p)
             IN  IF n.raise # "none" THEN n
                 ELSE After(n.lines, _consume_indented_block(n.pos, indent))
        ELSE Took(p, <<>>)

\* the first token with a colon in it, or 0
FirstColon(s) ==
    LET at == {k \in 1..Len(s) : s[k] \in {":", "::"}}
    IN  IF at = {} THEN 0 ELSE Min(at)

\* GoogleDocstring._partition_field_on_colon(line): without backquotes
\* _xref_regex splits nothing off, and the line is partitioned on its first
\* colon; both parts stripped
_partition_field_on_colon(s) ==
    LET c == FirstColon(s)
    IN  IF c = 0 THEN [before |-> Strip(s), colon |-> <<>>, after |-> <<>>]
        ELSE [before |-> Strip(SubSeq(s, 1, c - 1)),
              colon |-> <<":">>,
              after |-> Strip((IF s[c] = "::" THEN <<":">> ELSE <<>>) \o Drop(s, c))]

\* _google_typed_arg_regex.match(s), \s*(.+?)\s*\(\s*(.+?)\s*\): the groups
\* [name, type], or None
_google_typed_arg_regex_match(s) ==
    LET t == LStrip(s)
        opens == {a \in 2..Len(t) : t[a] = "("}
    IN  IF opens = {} THEN None
        ELSE LET a == Min(opens)
                 closes == {b \in a + 2..Len(t) : t[b] = ")"}
             IN  IF closes = {} THEN None
                 ELSE LET inner == SubSeq(t, a + 1, Min(closes) - 1)
                      IN  [name |-> rstrip(SubSeq(t, 1, a - 1)),
                           type |-> IF Strip(inner) = <<>> THEN <<" ">> ELSE Strip(inner)]

\* GoogleDocstring._escape_args_and_kwargs(name)
_escape_args_and_kwargs(name) ==
    IF Len(name) >= 2 /\ name[1] = "*" /\ name[2] = "*"
    THEN <<"\\*", "\\*">> \o Drop(name, 2)
    ELSE IF Len(name) >= 1 /\ name[1] = "*" THEN <<"\\*">> \o Drop(name, 1)
    ELSE name

\* a field and the cursor after it, or the exception raised
Field(name, type, r) == [name |-> name, type |-> type, pos |-> r.pos, raise |-> r.raise]

\* GoogleDocstring._consume_field(parse_type=True, prefer_type)
google_consume_field(p, prefer_type) ==
    LET n == cursor_next(p)
    IN  IF n.raise # "none" THEN Field(<<>>, <<>>, n)
        ELSE LET s == n.lines[1]
                 part == _partition_field_on_colon(s)
                 match == _google_typed_arg_regex_match(part.before)
                 name == _escape_args_and_kwargs(
                             IF match # None THEN match.name ELSE part.before)
                 type == IF match # None THEN match.type ELSE <<>>
                 block == _consume_indented_block(n.pos, _get_indent(s) + 1)
             IN  IF prefer_type /\ type = <<>> THEN Field(<<>>, name, block)
                 ELSE Field(name, type, block)

\* (a line without a colon is a name, whatever the section)
numpy_consume_field_no_swap(p, prefer_type) ==
    LET n == cursor_next(p)
    IN  IF n.raise # "none" THEN Field(<<>>, <<>>, n)
        ELSE LET s == n.lines[1]
                 part == _partition_field_on_colon(s)
                 name == _escape_args_and_kwargs(Strip(part.before))
                 type == Strip(part.after)
                 block == _consume_indented_block(n.pos, _get_indent(s) + 1)
             IN  Field(name, type, block)

\* NumpyDocstring._consume_field(parse_type=True, prefer_type)
numpy_consume_field(p, prefer_type) ==
    LET n == cursor_next(p)
    IN  IF n.raise # "none" THEN Field(<<>>, <<>>, n)
        ELSE LET s == n.lines[1]
                 part == _partition_field_on_colon(s)
                 name == _escape_args_and_kwargs(Strip(part.before))
                 type == Strip(part.after)
                 block == _consume_indented_block(n.pos, _get_indent(s) + 1)
             IN  IF prefer_type /\ type = <<>> THEN Field(<<>>, name, block)
                 ELSE Field(name, type, block)

\* self._consume_field(prefer_type=prefer_type), by class
_consume_field(p, prefer_type) ==
    IF style = "numpy" THEN numpy_consume_field(p, prefer_type)
    ELSE google_consume_field(p, prefer_type)

\* GoogleDocstring._get_min_indent(lines)
_get_min_indent(ls) ==
    LET indents == {_get_indent(ls[k]) : k \in {j \in 1..Len(ls) : ls[j] # <<>>}}
    IN  IF indents = {} THEN 0 ELSE Min(indents)

\* GoogleDocstring._dedent(lines)
_dedent(ls) == [k \in 1..Len(ls) |-> Drop(ls[k], _get_min_indent(ls))]

\* (the field is read from the last line of the section)
google_returns_fields_last_line(ls) ==
    IF ls = <<>> THEN <<>>
    ELSE LET part == _partition_field_on_colon(ls[Len(ls)])
             match == _google_typed_arg_regex_match(part.before)
         IN  IF part.colon = <<>> THEN <<[name |-> <<>>, type |-> <<>>]>>
             ELSE IF match # None THEN <<[name |-> match.name, type |-> match.type]>>
             ELSE <<[name |-> <<>>, type |-> part.before]>>

\* GoogleDocstring._consume_returns_section(), from the dedented lines that
\* _consume_to_next_section returned
google_returns_fields(ls) ==
    IF ls = <<>> THEN <<>>
    ELSE LET part == _partition_field_on_colon(ls[1])
             match == _google_typed_arg_regex_match(part.before)
         IN  IF part.colon = <<>> THEN <<[name |-> <<>>, type |-> <<>>]>>
             ELSE IF match # None THEN <<[name |-> match.name, type |-> match.type]>>
             ELSE <<[name |-> <<>>, type |-> part.before]>>

\* ' ' * n
RECURSIVE Spaces(_)
Spaces(n) == IF n = 0 THEN <<>> ELSE <<" ">> \o Spaces(n - 1)

\* GoogleDocstring._format_field(_name, _type): separator is '', no backquote
\* in the type
_format_field(name, type) ==
    IF name # <<>>
    THEN IF type # <<>>
         THEN <<"*", "*">> \o name \o <<"*", "*", " ", "(", "*">> \o type \o <<"*", ")">>
         ELSE <<"*", "*">> \o name \o <<"*", "*">>
    ELSE IF type # <<>> THEN <<"*">> \o type \o <<"*">>
    ELSE <<>>

\* GoogleDocstring._format_block(prefix, [field])
_format_block(prefix, field) == <<rstrip(prefix \o field)>>

\* the loops of _format_fields and _parse_returns_section over the fields
RECURSIVE format_each(_, _, _, _, _)
format_each(fs, first, rest, single, use_rtype) ==
    IF fs = <<>> THEN <<>>
    ELSE LET f == Head(fs)
             field == _format_field(f.name, IF use_rtype THEN <<>> ELSE f.type)
         IN  (IF single
              THEN _format_block(first, field)
                   \o (IF f.type # <<>> /\ use_rtype
                       THEN << <<":rtype:", " ">> \o f.type, <<>> >> ELSE <<>>)
              ELSE _format_block(first \o <<"*", " ">>, field))
             \o format_each(Tail(fs), rest, rest, single, use_rtype)

\* 'if lines and lines[-1]: lines.append("")'
EndWithEmpty(ls) == IF ls # <<>> /\ ls[Len(ls)] # <<>> THEN Append(ls, <<>>) ELSE ls

\* GoogleDocstring._format_fields(field_type, fields)
_format_fields(field_type, fs) ==
    EndWithEmpty(format_each(fs, <<field_type, " ">>, Spaces(9), Len(fs) <= 1, FALSE))

\* GoogleDocstring._parse_parameters_section(section): napoleon_use_param is True
RECURSIVE _parse_parameters_section(_)
_parse_parameters_section(fs) ==
    IF fs = <<>> THEN << <<>> >>
    ELSE << <<":param", " ">> \o Head(fs).name \o <<":">> >>
         \o (IF Head(fs).type # <<>>
             THEN << <<":type", " ">> \o Head(fs).name \o <<":", " ">> \o Head(fs).type >>
             ELSE <<>>)
         \o _parse_parameters_section(Tail(fs))

\* GoogleDocstring._parse_returns_section(section): napoleon_use_rtype is True
_parse_returns_section(fs) ==
    EndWithEmpty(format_each(fs, <<":returns:", " ">>, Spaces(10), Len(fs) <= 1,
                             Len(fs) <= 1))

\* GoogleDocstring._parse_yields_section(section)
_parse_yields_section(fs) == _format_fields(":Yields:", fs)

\* the handler parse calls for the header consumed: self._sections[section.lower()]
Handler(s) ==
    IF _directive_regex_match(s) THEN "directive" ELSE _sections[lower(s)]

\* (the finally clause leaves the section state as the handler had it)
parse_finally_keeping ==
    [_is_in_section |-> _is_in_section, _section_indent |-> _section_indent]

\* parse, lines 893-895: the finally clause
parse_finally == [_is_in_section |-> FALSE, _section_indent |-> 0]

\* the lines a Google docstring is made of
GoogleLines ==
    { <<>>,
      <<"Args", ":">>,
      <<"Returns", ":">>,
      <<" ", "Args", ":">>,
      <<"d", ":">>,
      <<" ", "x", " ", "(", "int", ")", ":", " ", "d">>,
      <<" ", "int", ":", " ", "d">>,
      <<" ", "d">>,
      <<"d">> }

\* the lines a NumPy docstring is made of
NumpyLines ==
    { <<>>,
      <<"Parameters">>,
      <<"Returns">>,
      <<"-", "-">>,
      <<"-">>,
      <<"x", " ", ":", " ", "int">>,
      <<"x">>,
      <<" ", "d">>,
      <<"..", " ", "index", "::", " ", "d">> }

\* longer docstrings, after the fixtures of the tests
NapoleonSamples ==
    { [style |-> "numpy",
       lines |-> << <<"Parameters", " ">>, <<"-", "-", "-">>, <<"x", " ", ":", " ", "int">>,
                    <<" ", "d">>, <<"*", "args">>, <<>>, <<>>, <<"y", " ", ":", " ", "str">> >>],
      [style |-> "numpy",
       lines |-> << <<"d">>, <<>>, <<"Yields">>, <<"-", "-">>, <<"str">>, <<" ", "d">>,
                    <<"Notes">>, <<"=", "=">>, <<"d">> >>],
      [style |-> "numpy",
       lines |-> << <<" ", "Returns">>, <<"-", "-">>, <<"int">>, <<>>, <<"Returns">>,
                    <<"-", "-", " ">>, <<"int">> >>],
      [style |-> "google",
       lines |-> << <<"d">>, <<>>, <<"Args", ":">>, <<" ", "x", " ", "(", "int", ")", ":", " ", "d">>,
                    <<" ", " ", "d">>, <<>>, <<" ", "*", "args", ":", " ", "d">>,
                    <<"Yields", ":">>, <<" ", "r", " ", "(", "str", ")", ":", " ", "d">> >>],
      [style |-> "google",
       lines |-> << <<"Notes", ":">>, <<" ", "d">>, <<>>, <<>>, <<" ", "d">>, <<"d">>,
                    <<"Returns", ":">>, <<" ", " ", "d">>, <<" ", "int", ":", " ", "d">> >>] }

\* no docstring object exists yet
InitNap ==
    /\ ParseIdle
    /\ IterIdle
    /\ FixIdle
    /\ NapIdle

\* GoogleDocstring(lines) or NumpyDocstring(lines): __init__ keeps the lines
\* behind a cursor and clears the section state; parse() is called next
NapInit ==
    /\ npc = "idle"
    /\ \/ /\ style' = "google"
          /\ _lines' \in SeqsUpTo(GoogleLines, MaxLines)
       \/ /\ style' = "numpy"
          /\ _lines' \in SeqsUpTo(NumpyLines, MaxLines)
       \/ \E d \in NapoleonSamples : style' = d.style /\ _lines' = d.lines
    /\ _line_iter' = 0
    /\ _parsed_lines' = <<>>
    /\ _is_in_section' = FALSE
    /\ _section_indent' = 0
    /\ section' = <<>>
    /\ fields' = <<>>
    /\ lines' = <<>>
    /\ error' = "none"
    /\ npc' = "parse"
    /\ UNCHANGED <<parse_vars, iter_vars, fix_vars>>

\* an exception leaves parse: the finally clause has run if a section was open
NapRaise(e) ==
    /\ error' = e
    /\ npc' = "raised"
    /\ _is_in_section' = (IF _is_in_section THEN parse_finally._is_in_section ELSE FALSE)
    /\ _section_indent' = (IF _is_in_section THEN parse_finally._section_indent
                           ELSE _section_indent)
    /\ UNCHANGED <<style, _lines, _line_iter, _parsed_lines, section, fields, lines>>

\* parse, line 881: self._parsed_lines = self._consume_empty()
NapParse ==
    /\ npc = "parse"
    /\ LET r == _consume_empty(_line_iter)
       IN  /\ _line_iter' = r.pos
           /\ _parsed_lines' = r.lines
    /\ npc' = "loop"
    /\ UNCHANGED <<style, _lines, _is_in_section, _section_indent, section, fields, lines,
                   error>>
    /\ UNCHANGED <<parse_vars, iter_vars, fix_vars>>

\* parse, line 882: the loop ends when no line is left
NapDone ==
    /\ npc = "loop"
    /\ ~cursor_has_next(_line_iter)
    /\ npc' = "done"
    /\ UNCHANGED <<style, _lines, _line_iter, _parsed_lines, _is_in_section,
                   _section_indent, section, fields, lines, error>>
    /\ UNCHANGED <<parse_vars, iter_vars, fix_vars>>

\* GoogleDocstring._consume_section_header() / NumpyDocstring._consume_section_header()
_consume_section_header(p) ==
    LET n == cursor_next(p)
    IN  IF n.raise # "none" THEN n
        ELSE IF style = "numpy"
        THEN IF _directive_regex_match(n.lines[1]) THEN n
             ELSE LET u == cursor_next(n.pos)
                  IN  IF u.raise # "none" THEN u ELSE Took(u.pos, n.lines)
        ELSE IF lower(strip_colons(n.lines[1])) \in DOMAIN _sections
        THEN Took(n.pos, <<strip_colons(n.lines[1])>>)
        ELSE n

\* parse, lines 883-892: a header is recognized and consumed, the section
\* state is set and the handler starts: _consume_fields and
\* _consume_to_next_section both begin with _consume_empty()
NapSection ==
    /\ npc = "loop"
    /\ cursor_has_next(_line_iter)
    /\ LET h == _is_section_header(_line_iter)
       IN  IF IsRaise(h) THEN NapRaise(h.raise)
           ELSE /\ h.value
                /\ LET hd == _consume_section_header(_line_iter)
                   IN  IF hd.raise # "none"
                       THEN /\ error' = hd.raise
                            /\ npc' = "raised"
                            /\ _is_in_section' = parse_finally._is_in_section
                            /\ _section_indent' = parse_finally._section_indent
                            /\ UNCHANGED <<_line_iter, section, fields, lines>>
                       ELSE /\ section' = hd.lines[1]
                            /\ _is_in_section' = TRUE
                            /\ _section_indent' = _get_current_indent(hd.pos, 0)
                            /\ _line_iter' = _consume_empty(hd.pos).pos
                            /\ fields' = <<>>
                            /\ lines' = <<>>
                            /\ npc' = (IF \/ Handler(hd.lines[1]) = "_parse_parameters_section"
                                          \/ /\ style = "numpy"
                                             /\ Handler(hd.lines[1]) \in
                                                    {"_parse_returns_section",
                                                     "_parse_yields_section"}
                                       THEN "fields" ELSE "to_next")
                            /\ error' = error
                /\ UNCHANGED <<style, _lines, _parsed_lines>>
    /\ UNCHANGED <<parse_vars, iter_vars, fix_vars>>

\* parse, lines 897-898: text in front of everything else, taken up to the
\* first empty line or header, and the empty lines behind it
NapContiguous ==
    /\ npc = "loop"
    /\ cursor_has_next(_line_iter)
    /\ _parsed_lines = <<>>
    /\ LET h == _is_section_header(_line_iter)
       IN  IF IsRaise(h) THEN NapRaise(h.raise)
           ELSE /\ ~h.value
                /\ LET c == _consume_contiguous(_line_iter)
                       e == _consume_empty(c.pos)
                   IN  IF c.raise # "none" THEN NapRaise(c.raise)
                       ELSE /\ _line_iter' = e.pos
                            /\ _parsed_lines' = _parsed_lines \o c.lines \o e.lines
                            /\ UNCHANGED <<style, _lines, _is_in_section, _section_indent,
                                           section, fields, lines, error, npc>>
    /\ UNCHANGED <<parse_vars, iter_vars, fix_vars>>

\* parse, lines 899-900: text after something was parsed; _consume_to_next_section
\* begins with _consume_empty()
NapText ==
    /\ npc = "loop"
    /\ cursor_has_next(_line_iter)
    /\ _parsed_lines # <<>>
    /\ LET h == _is_section_header(_line_iter)
       IN  IF IsRaise(h) THEN NapRaise(h.raise)
           ELSE /\ ~h.value
                /\ _line_iter' = _consume_empty(_line_iter).pos
                /\ lines' = <<>>
                /\ npc' = "to_next"
                /\ UNCHANGED <<style, _lines, _parsed_lines, _is_in_section,
                               _section_indent, section, fields, error>>
    /\ UNCHANGED <<parse_vars, iter_vars, fix_vars>>

\* _consume_fields, lines 681-684: one more field
NapField ==
    /\ npc = "fields"
    /\ LET b == _is_section_break(_line_iter)
       IN  IF IsRaise(b) THEN NapRaise(b.raise)
           ELSE /\ ~b.value
                /\ LET f == _consume_field(_line_iter,
                                           Handler(section) # "_parse_parameters_section")
                   IN  IF f.raise # "none" THEN NapRaise(f.raise)
                       ELSE /\ _line_iter' = f.pos
                            /\ fields' = (IF f.name # <<>> \/ f.type # <<>>
                                          THEN Append(fields, [name |-> f.name, type |-> f.type])
                                          ELSE fields)
                            /\ UNCHANGED <<style, _lines, _parsed_lines, _is_in_section,
                                           _section_indent, section, lines, error, npc>>
    /\ UNCHANGED <<parse_vars, iter_vars, fix_vars>>

\* the section is over: the handler returns its lines, the finally clause
\* runs, parse appends the lines (lines 892-901)
NapReturn(ls) ==
    /\ _parsed_lines' = _parsed_lines \o ls
    /\ _is_in_section' = (IF section # <<>> THEN parse_finally._is_in_section
                          ELSE _is_in_section)
    /\ _section_indent' = (IF section # <<>> THEN parse_finally._section_indent
                           ELSE _section_indent)
    /\ section' = <<>>
    /\ npc' = "loop"

\* _consume_fields, line 685: the loop ends at a section break
NapFieldsEnd ==
    /\ npc = "fields"
    /\ LET b == _is_section_break(_line_iter)
       IN  IF IsRaise(b) THEN NapRaise(b.raise)
           ELSE /\ b.value
                /\ NapReturn(CASE Handler(section) = "_parse_parameters_section" ->
                                      _parse_parameters_section(fields)
                               [] Handler(section) = "_parse_returns_section" ->
                                      _parse_returns_section(fields)
                               [] Handler(section) = "_parse_yields_section" ->
                                      _parse_yields_section(fields))
                /\ UNCHANGED <<style, _lines, _line_iter, fields, lines, error>>
    /\ UNCHANGED <<parse_vars, iter_vars, fix_vars>>

\* _consume_to_next_section, lines 721-722: one more line
NapNextLine ==
    /\ npc = "to_next"
    /\ LET b == _is_section_break(_line_iter)
       IN  IF IsRaise(b) THEN NapRaise(b.raise)
           ELSE /\ ~b.value
                /\ LET n == cursor_next(_line_iter)
                   IN  IF n.raise # "none" THEN NapRaise(n.raise)
                       ELSE /\ _line_iter' = n.pos
                            /\ lines' = lines \o n.lines
                            /\ UNCHANGED <<style, _lines, _parsed_lines, _is_in_section,
                                           _section_indent, section, fields, error, npc>>
    /\ UNCHANGED <<parse_vars, iter_vars, fix_vars>>

\* _consume_to_next_section, line 723: the loop ends at a section break, the
\* empty lines behind are taken too; then the caller goes on: parse appends
\* the text, or the handler of the section returns its lines
NapToNextEnd ==
    /\ npc = "to_next"
    /\ LET b == _is_section_break(_line_iter)
       IN  IF IsRaise(b) THEN NapRaise(b.raise)
           ELSE /\ b.value
                /\ LET e == _consume_empty(_line_iter)
                       all == lines \o e.lines
                       found == IF section # <<>> /\ Handler(section) \in
                                       {"_parse_returns_section", "_parse_yields_section"}
                                THEN google_returns_fields(_dedent(all)) ELSE fields
                   IN  /\ _line_iter' = e.pos
                       /\ lines' = all
                       /\ fields' = found
                       /\ NapReturn(IF section = <<>> THEN all
                                    ELSE CASE Handler(section) = "directive" -> <<section>> \o all
                                           [] Handler(section) = "_skip_section" -> <<>>
                                           [] Handler(section) = "_parse_returns_section" ->
                                                  _parse_returns_section(found)
                                           [] Handler(section) = "_parse_yields_section" ->
                                                  _parse_yields_section(found))
                /\ UNCHANGED <<style, _lines, error>>
    /\ UNCHANGED <<parse_vars, iter_vars, fix_vars>>

NextNap ==
    \/ NapInit
    \/ NapParse
    \/ NapDone
    \/ NapSection
    \/ NapContiguous
    \/ NapText
    \/ NapField
    \/ NapFieldsEnd
    \/ NapNextLine
    \/ NapToNextEnd

SpecNap == InitNap /\ [][NextNap]_vars

----------------------------------------------------------------------------
\* Properties of the section parser.

\* the line the cursor hands out after p lines
LineAt(p) == rstrip(_lines[p + 1])

\* the lines after the one at p that are not blank, by their number
LaterText(p) == {k \in p + 2..Len(_lines) : rstrip(_lines[k]) # <<>>}

IsIndexDirective(s) == Len(s) >= 4 /\ SubSeq(s, 1, 4) = <<"..", " ", "index", "::">>

\* the line consists solely of two or more underline characters
IsUnderline(s) ==
    /\ s # <<>>
    /\ \A k \in 1..Len(s) : s[k] \in UnderlineChars
    /\ Len(s) >= 2 \/ s = <<"::">>

\* C22 as stated: in the NumPy parser the line in front of the cursor is
\* recognized as a section header exactly when its text, lowercased and
\* stripped, is a name of the section table and the line right after it
\* consists solely of two or more underline characters.
C22_NumpyHeader_AsStated ==
    style = "numpy" =>
        \A p \in 0..Len(_lines) - 1 :
            _is_section_header(p)
                = Val(/\ lower(Strip(_lines[p + 1])) \in DOMAIN _sections
                      /\ p + 2 <= Len(_lines)
                      /\ IsUnderline(Strip(_lines[p + 2])))

\* C22, amended: in the NumPy parser the line in front of the cursor is
\* recognized as a section header exactly when either its text, lowercased,
\* with trailing white space removed and leading white space kept, is a name of
\* the section table and the line right after it consists solely of two or more
\* underline characters (white space behind them aside), or the line begins
\* with the directive '.. index::'; a known name that is the last line, or
\* whose next line is no such underline, is no header.
C22_NumpyHeader ==
    style = "numpy" =>
        \A p \in 0..Len(_lines) - 1 :
            _is_section_header(p)
                = Val(\/ /\ lower(LineAt(p)) \in DOMAIN _sections
                         /\ p + 2 <= Len(_lines)
                         /\ IsUnderline(LineAt(p + 1))
                      \/ IsIndexDirective(LineAt(p)))

\* parse is behind the header of a Parameters section written with white space
\* behind the name, with an underline of three characters
C22_Witness ==
    /\ style = "numpy"
    /\ npc = "fields"
    /\ section = <<"Parameters">>
    /\ _lines[1] = <<"Parameters", " ">>
    /\ _lines[2] = <<"-", "-", "-">>
    /\ _line_iter = 2

\* a handler is consuming a section: at the head of the loop of _consume_fields
\* or of _consume_to_next_section
InSectionLoop == npc \in {"fields", "to_next"} /\ section # <<>>

\* the three ends of a section, with the cursor behind q lines: no line is
\* left, a header is recognized, or the next line is not blank and not
\* indented to the indentation recorded for the section
EndOfSection(q) ==
    \/ q >= Len(_lines)
    \/ _is_section_header(q) = Val(TRUE)
    \/ /\ _is_in_section
       /\ LineAt(q) # <<>>
       /\ LeadingSpace(LineAt(q)) < _section_indent

\* in the NumPy parser: the next two lines are both blank
TwoBlankLines(q) ==
    /\ style = "numpy"
    /\ q + 2 <= Len(_lines)
    /\ LineAt(q) = <<>>
    /\ LineAt(q + 1) = <<>>

\* C23 as stated: while a section is being consumed it ends at the first
\* position where the cursor is exhausted, a header is recognized, or the next
\* non-blank line is not indented to the section's indentation; at every
\* other position, blank lines included, consumption goes on.
C23_SectionEnds_AsStated ==
    [][InSectionLoop =>
          /\ (npc' = "loop") <=> EndOfSection(_line_iter)
          /\ npc' = npc =>
                \A q \in _line_iter.._line_iter' - 1 : ~EndOfSection(q)]_vars

\* C23, amended: once the blank lines right behind the header are passed, a
\* section that is being consumed ends at the first position where the cursor
\* is exhausted, a header is recognized, the next line is not blank and not
\* indented to the section's indentation, or, in the NumPy parser, the next
\* two lines are both blank; at every other position, single blank lines
\* included, consumption goes on.
C23_SectionEnds ==
    [][InSectionLoop =>
          /\ (npc' = "loop") <=> (EndOfSection(_line_iter) \/ TwoBlankLines(_line_iter))
          /\ npc' = npc =>
                \A q \in _line_iter.._line_iter' - 1 :
                    ~(EndOfSection(q) \/ TwoBlankLines(q))]_vars

\* a NumPy section with a field has just ended in front of two blank lines
C23_Witness ==
    /\ style = "numpy"
    /\ npc = "loop"
    /\ fields # <<>>
    /\ TwoBlankLines(_line_iter)
    /\ _line_iter + 2 < Len(_lines)

\* the lines right behind the line at p that are indented deeper than it,
\* counted up to the first line that is not
RECURSIVE DeeperRun(_, _)
DeeperRun(q, indent) ==
    IF q + 1 <= Len(_lines) /\ LineAt(q) # <<>> /\ LeadingSpace(LineAt(q)) > indent
    THEN 1 + DeeperRun(q + 1, indent)
    ELSE 0

C25_GoogleReturns ==
    [][( /\ style = "google"
         /\ npc = "to_next"
         /\ npc' = "loop"
         /\ section # <<>>
         /\ lower(section) \in ReturnsSections \cup YieldsSections )
       => /\ Len(fields') <= 1
          /\ lines' = <<>> => fields' = <<>>
          /\ lines' # <<>> =>
               LET s == Strip(lines'[1])
                   colons == {k \in 1..Len(s) : s[k] = ":"}
                   c == IF colons = {} THEN 0 ELSE Min(colons)
                   before == Strip(SubSeq(s, 1, c - 1))
                   opens == {a \in 2..Len(before) : before[a] = "("}
                   typed == opens # {} /\ before[Len(before)] = ")"
                   a == Min(opens)
                   produced == SubSeq(_parsed_lines', Len(_parsed_lines) + 1,
                                      Len(_parsed_lines'))
               IN  /\ c = 0 =>
                        /\ fields' = <<[name |-> <<>>, type |-> <<>>]>>
                        /\ \A k \in 1..Len(produced) :
                               produced[k] = <<>> \/ Head(produced[k]) # ":rtype:"
                   /\ (c # 0 /\ ~typed) =>
                        fields' = <<[name |-> <<>>, type |-> before]>>
                   /\ (c # 0 /\ typed) =>
                        fields' = <<[name |-> Strip(SubSeq(before, 1, a - 1)),
                                     type |-> Strip(SubSeq(before, a + 1, Len(before) - 1))]>>
      ]_vars

\* a Returns section whose first line has no colon and whose second line has
\* one is over, and its one field has neither name nor type
C25_Witness ==
    /\ style = "google"
    /\ npc = "loop"
    /\ _line_iter = 3
    /\ _lines[1] = <<"Returns", ":">>
    /\ _lines[2] = <<" ", "d">>
    /\ _lines[3] = <<" ", "int", ":", " ", "d">>
    /\ fields = <<[name |-> <<>>, type |-> <<>>]>>
    /\ _parsed_lines = << <<":returns:">>, <<>> >>

\* the number of steps parse can still take is bounded by this: four for
\* every line not yet taken, and less and less on the way round the main loop
\* (a loop over text that has taken nothing yet and is not at its end will
\* take a line next)
Variant ==
    4 * (Len(_lines) - _line_iter)
    + (CASE npc \in {"done", "raised"} -> 0
         [] npc = "loop" -> 2
         [] /\ npc = "to_next"
            /\ section = <<>>
            /\ ~IsRaise(_is_section_break(_line_iter))
            /\ ~_is_section_break(_line_iter).value -> 1
         [] OTHER -> 3)

\* C26: parse ends, for every list of lines, with the cursor exhausted: the
\* cursor never goes back, every iteration of the main loop takes at least one
\* line (the header, the leading text, or, for text behind something parsed,
\* blank lines or else the first line its loop over the text takes), every
\* iteration of the field loop and of the loop of _consume_to_next_section
\* takes at least one line, every step of parse brings it nearer to its end
\* (the variant, which is never negative, decreases), and at the end every
\* line was taken.
C26_ParseTerminates ==
    /\ [][npc # "idle" =>
           /\ _line_iter' >= _line_iter
           /\ _line_iter' <= Len(_lines)
           /\ Variant' < Variant
           /\ (npc = "loop" /\ npc' \in {"loop", "fields", "to_next"}) =>
                 \/ _line_iter' > _line_iter
                 \/ /\ npc' = "to_next"
                    /\ section' = <<>>
                    /\ ~IsRaise(_is_section_break(_line_iter'))
                    /\ ~_is_section_break(_line_iter').value
           /\ (npc = "fields" /\ npc' = "fields") => _line_iter' > _line_iter
           /\ (npc = "to_next" /\ npc' = "to_next") => _line_iter' > _line_iter
         ]_vars
    /\ [](npc = "done" => _line_iter = Len(_lines))

\* parse is over after the main loop ran through leading text, a section with
\* a field and text behind it
C26_Witness ==
    /\ npc = "done"
    /\ style = "numpy"
    /\ _lines = << <<"d">>, <<>>, <<"Yields">>, <<"-", "-">>, <<"str">>, <<" ", "d">>,
                   <<"Notes">>, <<"=", "=">>, <<"d">> >>
    /\ _line_iter = 9

\* C28: the section flag is set, and the section indentation with it, only
\* while the handler of a section runs: whenever parse is in its main loop,
\* after every section, at its end and after an exception left it,
\* _is_in_section is FALSE and _section_indent is 0; so text outside a section
\* is never ended by the dedent rule of the section break.
C28_FlagsOnlyInSection ==
    /\ (_is_in_section \/ _section_indent # 0) =>
           npc \in {"fields", "to_next"} /\ section # <<>>
    /\ npc \in {"parse", "loop", "done", "raised"} =>
           ~_is_in_section /\ _section_indent = 0
    /\ (npc = "to_next" /\ section = <<>>) => ~_is_in_section

\* parse is back in its main loop behind a section whose lines were indented, with
\* lines still to come
C28_Witness ==
    /\ npc = "loop"
    /\ style = "google"
    /\ Len(_lines) > 2
    /\ _lines[1] = <<"Args", ":">>
    /\ _lines[2] = <<" ", "x", " ", "(", "int", ")", ":", " ", "d">>
    /\ _line_iter = 2
    /\ _parsed_lines # <<>>
    /\ ~_is_in_section

\* C29: during parse the header test is made and a line is taken only while
\* the cursor has a line: no step of parse, of its loops or of the consumers
\* they call ends in the AttributeError of the header test on the sentinel or
\* in the StopIteration of next() on the exhausted cursor.
C29_NoErrorAtTheEnd ==
    /\ error \notin {"AttributeError", "StopIteration"}
    /\ npc # "raised"

\* parse is over for a section whose last field had its description on the
\* last line: the block of the field and the field loop both met the end
C29_Witness ==
    /\ npc = "done"
    /\ error = "none"
    /\ style = "numpy"
    /\ _lines = << <<"Parameters">>, <<"-", "-">>, <<"x", " ", ":", " ", "int">>, <<" ", "d">> >>
    /\ _line_iter = 4
    /\ fields = <<[name |-> <<"x">>, type |-> <<"int">>]>>

====
